---- MODULE Spec2Model ----
(***************************************************************************)
(* The export / preview / finalize workflow of the scoping-bot frontend:   *)
(* the Exports page (React component), the project and export contexts and *)
(* the export API client.                                                  *)
(*                                                                         *)
(* React is modelled as follows.  `st` is the state of the last committed  *)
(* render; handlers and effects read it through their closures.  A state   *)
(* setter called from an asynchronous continuation (after an await) only   *)
(* enqueues its value in `pend`; the next render commits `pend` and runs,  *)
(* in declaration order, the effects whose dependencies changed.  A user   *)
(* event (click, typing) is a discrete event: its handler's updates are    *)
(* committed, with whatever is pending, before the next event.             *)
(***************************************************************************)
EXTENDS Integers, Sequences, FiniteSets, Bags, TLC

\* ------------------------------------------------------------------ values

Null == "null"

\* Parsed scope documents.  "{}" is the empty object: truthy, no keys.
Scopes == {"{}", "S1"}

\* The raw JSON text of the editor: the empty string, a text that does not
\* parse, and for every scope its JSON.stringify(_, null, 2) form ("pretty")
\* and another text that parses to the same object ("compact").
Blank == [obj |-> Null, fmt |-> "blank"]
Garbage == [obj |-> Null, fmt |-> "garbage"]
Texts == {Blank, Garbage} \cup [obj : Scopes, fmt : {"pretty", "compact"}]

\* JSON.stringify(obj, null, 2)
Stringify2(obj) == [obj |-> obj, fmt |-> "pretty"]

\* useMemo parsedDraft: null for blank text and for text JSON.parse rejects
ParsedDraft(text) == IF text.fmt \in {"pretty", "compact"} THEN text.obj ELSE Null

\* A PDF blob held by the page: the scope key it was fetched under, whether it
\* is the finalized export or a preview render, the scope it shows, and
\* whether it was already cached when the last finalize action completed.
NoBlob == [key |-> Null, kind |-> "none", doc |-> Null, pre |-> FALSE, size |-> 0,
           type |-> ""]

Tabs == {"json", "excel", "pdf"}

\* ------------------------------------------------------------------ bounds

\* user events (typing, clicks) in one behaviour of the JSON tab
MaxEvents == 3

\* user events in one behaviour that visits the PDF tab
MaxPdfEvents == 4

\* PDF preview fetches in flight at once
MaxPdfReqs == 2

\* download types and the cancellation tokens created in one behaviour
Types == {"json", "excel", "pdf", "all"}
MaxControllers == 2

\* tab switches in one behaviour of the downloads
MaxDlEvents == 1

\* cell edits, row deletions and row additions in one behaviour of the table
MaxTableEdits == 2

\* mutations of the project list in one behaviour
MaxProjectCalls == 2

\* operations that generate previews in one behaviour
MaxGenerateCalls == 2

\* attached files of one project form
MaxAttachments == 3

\* the AbortControllers are numbered from 1; `controller: null` is 0
NoController == 0

\* the display URLs are numbered from 1; a previewPdfUrl of null is 0
NoUrl == 0

\* ------------------------------------------------------------------- state

VARIABLES
    st,             \* committed React state of the Exports page
    pend,           \* state updates enqueued and not yet rendered
    prevJsonRef,    \* prevJsonRef.current
    cachedPdfBlobRef, \* cachedPdfBlobRef.current (lastPdfKeyRef is its key)
    serverScope,    \* the finalized scope persisted by the backend, or Null
    incomingDraft,  \* location.state.draftScope, or Null
    loads,          \* running instances of the load effect (a bag of closures)
    fin,            \* the running finalize action
    regen,          \* the running regenerate action
    pdfReqs,        \* running PDF preview fetches (a bag of closures)
    budget,         \* user events left
    detectLog,      \* what the last run of the text-change effect saw
    finRes,         \* how the last finalize action ended
    fetchLog,       \* how the last answered getFinalizedScope call of the load effect ended
    ctxLog,         \* what the export context did last
    urls,           \* the display URLs created and not revoked, and whether the page is mounted
    pdfLog,         \* how the PDF preview fetch that was answered last ended
    downloadState,  \* downloadState of the Exports page
    dlOps,          \* the running download of every type
    aborted,        \* the AbortControllers whose abort() was called
    nextController, \* the next AbortController to be created
    dlLog,          \* how the download that ended last (of type dlKey) ended
    dlKey,          \* the download type the last step acted on
    tblDraft,       \* parsedDraft as the Excel tab sees it, section by section
    excelSection,   \* excelSection
    excelPreview,   \* excelPreview (total: its last row is the pushed Total row)
    tblBudget,      \* table edits left
    tblLog,         \* what the last table handler wrote back
    projects,       \* projects of the project context, as rendered
    prjPend,        \* the setProjects updates enqueued and not yet rendered
    prjOps,         \* the running operations of the project context
    srvProjects,    \* the project list of the backend
    prjBudget,      \* mutations of the project list left
    prjLog,         \* how the operation of the project context that ended last ended
    genOp,          \* the running operation that generates previews
    lastPreviewScope, \* lastPreviewScope of the project context
    genBudget,      \* operations that generate previews left
    genLog,         \* how the operation that generates previews ended, or where it is
    attachments,    \* data.files handed to projectApi.createProject
    formData        \* the FormData built from it, key by key

pageVars == <<st, pend, prevJsonRef, cachedPdfBlobRef, serverScope, incomingDraft,
              loads, fin, regen, pdfReqs, budget, detectLog, finRes, fetchLog, ctxLog,
              urls, pdfLog>>

dlVars == <<downloadState, dlOps, aborted, nextController, dlLog, dlKey>>

tblVars == <<tblDraft, excelSection, excelPreview, tblBudget, tblLog>>

prjVars == <<projects, prjPend, prjOps, srvProjects, prjBudget, prjLog>>

genVars == <<genOp, lastPreviewScope, genBudget, genLog>>

formVars == <<attachments, formData>>

vars == <<pageVars, dlVars, tblVars, prjVars, genVars, formVars>>

\* --------------------------------------------------------- pending updates

NoUpd == [g \in {} |-> TRUE]

Upd(p, f, v) == [g \in (DOMAIN p) \cup {f} |-> IF g = f THEN v ELSE p[g]]

Merge(p, q) == [g \in (DOMAIN p) \cup (DOMAIN q) |-> IF g \in DOMAIN q THEN q[g] ELSE p[g]]

\* the state a render would commit
Apply(s, p) == [g \in DOMAIN s |-> IF g \in DOMAIN p THEN p[g] ELSE s[g]]

\* an update to the value the state already has changes nothing
Norm(s, p) == [g \in {h \in DOMAIN p : p[h] # s[h]} |-> p[g]]

\* ----------------------------------------------------------------- backend

\* What the backend can answer to a fetch of the finalized scope: the scope
\* (or a transport failure) when one is persisted; otherwise HTTP 400, or a
\* 200 response with a null body, or a transport failure.
ScopeReplies(server) ==
    IF server # Null THEN {"data", "error"} ELSE {"http400", "null200", "error"}

\* projectApi.getFinalizedScope: a plain GET like its siblings; axios rejects
\* on a non-2xx status.
projectApi_getFinalizedScope(reply) ==
    IF reply \in {"data", "null200"} THEN "resolved" ELSE "rejected"

\* ProjectContext.getFinalizedScope: null for an empty body, the body
\* otherwise, and every rejection is logged and re-thrown.
getFinalizedScope(reply) ==
    IF projectApi_getFinalizedScope(reply) = "rejected" THEN "raise"
    ELSE IF reply = "null200" THEN "null" ELSE "data"

\* ----------------------------------------------------------- ExportContext

\* handleExport before its await: setLoading(true); setError(null)
handleExportStart == Upd(Upd(NoUpd, "ctxLoading", TRUE), "ctxError", Null)

\* handleExport after its await: catch (setError(message), re-throw) and finally
handleExportEnd(ok) ==
    IF ok THEN Upd(NoUpd, "ctxLoading", FALSE)
    ELSE Upd(Upd(NoUpd, "ctxError", "message"), "ctxLoading", FALSE)

\* exportApi.exportToJson under handleExport: resolves with the response body
exportToJson(reply) == IF reply \in {"data", "null200"} THEN "resolved" ELSE "rejected"

\* ExportContext.getFinalizedScope: a rejection with status 400 becomes null,
\* any other rejection is re-thrown.
ExportContext_getFinalizedScope(reply) ==
    IF exportToJson(reply) = "resolved"
    THEN (IF reply = "data" THEN "data" ELSE "null")
    ELSE IF reply = "http400" THEN "null" ELSE "raise"

\* previewPdf line 63: data = finalScope || scope
PreviewData(finalScope, scope) == IF finalScope # Null THEN finalScope ELSE scope

\* previewPdf line 64: !data || Object.keys(data).length === 0
PreviewDataEmpty(data) == data = Null \/ data = "{}"

\* ------------------------------------------------------ effects of Exports

\* Load effect, line 190: "Prevent overwriting immediately after finalize".
LoadSkipsRefetch(isFinalized, justFinalized) == isFinalized /\ justFinalized

LoadScopeUpdates_AlwaysFinal(result, server, incoming) ==
    IF result = "data"
    THEN Upd(Upd(NoUpd, "jsonText", Stringify2(server)), "isFinalized", TRUE)
    ELSE IF incoming # Null
    THEN Upd(Upd(NoUpd, "jsonText", Stringify2(incoming)), "isFinalized", TRUE)
    ELSE Upd(Upd(NoUpd, "jsonText", Blank), "isFinalized", FALSE)

\* The state updates of the load effect once getFinalizedScope resolved.
LoadScopeUpdates(result, server, incoming) ==
    IF result = "data"
    THEN Upd(Upd(NoUpd, "jsonText", Stringify2(server)), "isFinalized", TRUE)
    ELSE IF incoming # Null
    THEN Upd(Upd(NoUpd, "jsonText", Stringify2(incoming)), "isFinalized", FALSE)
    ELSE Upd(Upd(NoUpd, "jsonText", Blank), "isFinalized", FALSE)

DetectReset_NoWindow(isFinalized, prev, jsonText, justFinalized) ==
    isFinalized /\ prev # Blank /\ prev # jsonText

\* Text-change detection effect, line 223.  prevJsonRef.current is falsy
\* exactly when it is the empty string.
DetectReset(isFinalized, prev, jsonText, justFinalized) ==
    isFinalized /\ prev # Blank /\ prev # jsonText /\ ~justFinalized

\* Line 230: the flag is cleared by the first run that sees it.
DetectClearsFlag(justFinalized) == justFinalized

\* PDF preview effect, lines 244-253.
PdfEffectActive(activeTab, parsedDraft) == activeTab = "pdf" /\ parsedDraft # Null

PdfCacheHit(cache, parsedDraft) == cache # NoBlob /\ cache.key = parsedDraft

\* previewPdfUrl is the URL string in state: urlId names the string, and
\* previewPdfUrl the blob it was created for.  NoUrl is null.
SetPreviewPdfUrl(q, blob, id) == Upd(Upd(q, "previewPdfUrl", blob), "urlId", id)

\* URL.createObjectURL: a URL that is neither live nor referenced anywhere
FreshUrl(live) ==
    LET used == live \cup {st.urlId} \cup {c.shown : c \in BagToSet(pdfReqs)}
                  \cup (IF "urlId" \in DOMAIN pend THEN {pend.urlId} ELSE {})
    IN  CHOOSE n \in 1..(Cardinality(used) + 1) :
            n \notin used /\ \A m \in 1..(n - 1) : m \in used

\* One render: commits the updates p and runs the effects whose dependencies
\* changed, in the order the component declares them.
CommitEffects(p) ==
    LET new == Apply(st, p)
        jsonCh == new.jsonText # st.jsonText
        justCh == new.justFinalized # st.justFinalized
        finCh == new.isFinalized # st.isFinalized
        tabCh == new.activeTab # st.activeTab
        \* the provider re-rendered: getPdfBlob and previewPdf are new functions
        ctxCh == new.ctxLoading # st.ctxLoading \/ new.ctxError # st.ctxError
        pd == ParsedDraft(new.jsonText)
        \* useMemo returns a new object whenever the text changes, and null for null
        draftCh == jsonCh /\ ~(pd = Null /\ ParsedDraft(st.jsonText) = Null)
        \* "Clear cached PDF on JSON change", deps [jsonText]
        cache1 == IF jsonCh THEN NoBlob ELSE cachedPdfBlobRef
        q1 == IF jsonCh THEN SetPreviewPdfUrl(NoUpd, NoBlob, NoUrl) ELSE NoUpd
        \* cleanup of the effect on [previewPdfUrl]: the URL of the previous render
        urlCh == new.urlId # st.urlId
        live1 == IF urlCh THEN urls.live \ {st.urlId} ELSE urls.live
        \* text-change detection, deps [jsonText, isFinalized, justFinalized]
        detRuns == jsonCh \/ finCh \/ justCh
        reset == detRuns /\ DetectReset(new.isFinalized, prevJsonRef, new.jsonText, new.justFinalized)
        clear == detRuns /\ DetectClearsFlag(new.justFinalized)
        q2 == IF reset THEN Upd(q1, "isFinalized", FALSE) ELSE q1
        q3 == IF clear THEN Upd(q2, "justFinalized", FALSE) ELSE q2
        \* PDF preview, deps [activeTab, parsedDraft, isFinalized, id, getPdfBlob,
        \* previewPdf]
        pdfRuns == (tabCh \/ draftCh \/ finCh \/ ctxCh) /\ PdfEffectActive(new.activeTab, pd)
        hit == pdfRuns /\ PdfCacheHit(cache1, pd)
        miss == pdfRuns /\ ~PdfCacheHit(cache1, pd)
        created == FreshUrl(live1)
        q4 == IF hit THEN SetPreviewPdfUrl(q3, cache1, created) ELSE q3
        \* the fetch runs up to its first await inside handleExport
        q5 == IF miss THEN Merge(q4, handleExportStart) ELSE q4
    IN  /\ urls.mounted
        /\ miss => BagCardinality(pdfReqs) < MaxPdfReqs
        /\ urls' = [urls EXCEPT !.live = IF hit THEN live1 \cup {created} ELSE live1]
        /\ st' = new
        /\ pend' = Norm(new, q5)
        /\ prevJsonRef' = IF detRuns THEN new.jsonText ELSE prevJsonRef
        /\ cachedPdfBlobRef' = cache1
        \* load effect, deps [id, incomingDraft, justFinalized]
        /\ loads' = IF justCh
                    THEN loads (+) SetToBag({[isFin |-> new.isFinalized,
                                              just |-> new.justFinalized]})
                    ELSE loads
        /\ pdfReqs' = IF miss
                      THEN pdfReqs (+) SetToBag({[key |-> pd, isFin |-> new.isFinalized,
                                                  pc |-> IF new.isFinalized THEN "pdf" ELSE "scope",
                                                  data |-> Null, shown |-> new.urlId]})
                      ELSE pdfReqs
        /\ detectLog' = IF detRuns
                        THEN [just |-> new.justFinalized,
                              differ |-> new.isFinalized /\ prevJsonRef # Blank
                                         /\ prevJsonRef # new.jsonText]
                        ELSE detectLog

\* an asynchronous continuation enqueues its updates
Enqueue(q) == pend' = Norm(st, Merge(pend, q))

\* ------------------------------------------------------------------- Init

InitialScopes == {Null, "S1"}

\* downloadState entry of a type with no download running (lines 88-93)
IdleEntry == [loading |-> FALSE, progress |-> 0, controller |-> NoController]

NoPdfLog == [outcome |-> "-", toast |-> "-", stored |-> FALSE, shown |-> FALSE]

NoOutcome == [key |-> "-", cancelled |-> FALSE, saved |-> FALSE, files |-> {},
              bad |-> FALSE, toast |-> "-"]

\* no download of a type is running
IdleOp == [pc |-> "idle", controller |-> NoController, name |-> <<>>, zip |-> {},
           bad |-> FALSE]

InitDownloads ==
    /\ downloadState = [k \in Types |-> IdleEntry]
    /\ dlOps = [k \in Types |-> IdleOp]
    /\ aborted = {}
    /\ nextController = 1
    /\ dlLog = NoOutcome
    /\ dlKey = "-"

InitPage(events) ==
    /\ st = [jsonText |-> Blank, isFinalized |-> FALSE, justFinalized |-> FALSE,
             finalizing |-> FALSE, activeTab |-> "json", previewPdfUrl |-> NoBlob, urlId |-> NoUrl,
             ctxLoading |-> FALSE, ctxError |-> Null]
    /\ pend = NoUpd
    /\ prevJsonRef = Blank
    /\ cachedPdfBlobRef = NoBlob
    /\ serverScope \in InitialScopes
    /\ incomingDraft \in InitialScopes
    /\ loads = SetToBag({[isFin |-> FALSE, just |-> FALSE]})
    /\ fin = [pc |-> "idle", draft |-> Null, log |-> <<>>, finBefore |-> FALSE]
    /\ regen = "idle"
    /\ pdfReqs = EmptyBag
    /\ budget = events
    /\ detectLog = [just |-> FALSE, differ |-> FALSE]
    /\ finRes = [failedAt |-> "-", finBefore |-> FALSE, wroteFinal |-> FALSE,
                 wroteText |-> FALSE, errToast |-> FALSE,
                 finalizingOff |-> FALSE, finAfter |-> FALSE]
    /\ fetchLog = [reply |-> "-", result |-> "-", draftLoaded |-> FALSE]
    /\ ctxLog = "-"
    /\ urls = [live |-> {}, mounted |-> TRUE]
    /\ pdfLog = NoPdfLog


\* ------------------------------------------------------------ user events

\* a render scheduled for the pending updates
Render ==
    /\ DOMAIN pend # {}
    /\ CommitEffects(pend)
    /\ UNCHANGED <<serverScope, incomingDraft, fin, regen, budget, finRes, fetchLog, ctxLog, pdfLog, dlVars, tblVars, prjVars, genVars, formVars>>

\* textarea onChange on the JSON tab
EditText(v) ==
    /\ budget > 0
    /\ st.activeTab = "json"
    /\ v # st.jsonText
    /\ CommitEffects(Upd(pend, "jsonText", v))
    /\ budget' = budget - 1
    /\ UNCHANGED <<serverScope, incomingDraft, fin, regen, finRes, fetchLog, ctxLog, pdfLog, dlVars, tblVars, prjVars, genVars, formVars>>

\* tab buttons
SetActiveTab(t) ==
    /\ budget > 0
    /\ t \in Tabs
    /\ t # st.activeTab
    /\ CommitEffects(Upd(pend, "activeTab", t))
    /\ budget' = budget - 1
    /\ UNCHANGED <<serverScope, incomingDraft, fin, regen, finRes, fetchLog, ctxLog, pdfLog, dlVars, tblVars, prjVars, genVars, formVars>>

\* ------------------------------------------------------------ load effect

\* the page shows a draft: not finalized, the incoming draft (if any) as text
DraftLoaded(s, incoming) ==
    /\ ~s.isFinalized
    /\ incoming # Null => s.jsonText = Stringify2(incoming)

\* One run of the load effect answered (lines 186-208): projectApi.getProject
\* and then, unless the run returns at line 190, getFinalizedScope.  The first
\* call only feeds `project`, so both answers are taken in one step.
LoadResp(c, reply) ==
    /\ BagIn(c, loads)
    /\ reply \in {"projectError"} \cup ScopeReplies(serverScope)
    /\ loads' = loads (-) SetToBag({c})
    /\ IF reply # "projectError" /\ ~LoadSkipsRefetch(c.isFin, c.just)
       THEN LET result == getFinalizedScope(reply)
                q == IF result = "raise" THEN NoUpd
                     ELSE LoadScopeUpdates(result, serverScope, incomingDraft)
            IN  /\ Enqueue(q)
                /\ fetchLog' = IF reply = "error" THEN fetchLog
                               ELSE [reply |-> reply, result |-> result,
                                     draftLoaded |-> DraftLoaded(Apply(Apply(st, pend), q),
                                                                 incomingDraft)]
       ELSE UNCHANGED <<pend, fetchLog>>
    /\ UNCHANGED <<st, prevJsonRef, cachedPdfBlobRef, serverScope, incomingDraft,
                   fin, regen, pdfReqs, budget, detectLog, finRes, ctxLog, urls, pdfLog, dlVars, tblVars, prjVars, genVars, formVars>>

\* ---------------------------------------------------------- handleFinalize

FinalizeGuard_None(parsedDraft) == TRUE

\* line 341
FinalizeGuard(parsedDraft) == parsedDraft # Null

\* the backend calls of ProjectContext.finalizeScope, in order
NextFinalizeCall(pc) ==
    CASE pc = "finalize" -> "refresh"
      [] pc = "refresh" -> "refetch"

\* lines 347-348, after finalizeScope resolved
FinalizeSuccessUpdates == Upd(Upd(NoUpd, "justFinalized", TRUE), "isFinalized", TRUE)

FinalizeFailureUpdates_ClearsText ==
    Upd(Upd(NoUpd, "finalizing", FALSE), "jsonText", Blank)

\* lines 355-360: catch and finally
FinalizeFailureUpdates == Upd(NoUpd, "finalizing", FALSE)

\* lines 352-354, 359
FinalizeRefetchUpdates(result, server) ==
    LET q == Upd(SetPreviewPdfUrl(NoUpd, NoBlob, NoUrl), "finalizing", FALSE)
    IN  IF result = "data" THEN Upd(q, "jsonText", Stringify2(server)) ELSE q

\* click on "Finalize Scope" (the button is disabled while finalizing)
HandleFinalize ==
    /\ budget > 0
    /\ st.activeTab = "json"
    /\ ~st.finalizing
    /\ IF ~FinalizeGuard(ParsedDraft(st.jsonText))
       THEN UNCHANGED vars
       ELSE /\ fin' = [pc |-> "finalize", draft |-> ParsedDraft(st.jsonText),
                       log |-> <<"finalize">>, finBefore |-> st.isFinalized]
            /\ CommitEffects(Upd(pend, "finalizing", TRUE))
            /\ budget' = budget - 1
            /\ UNCHANGED <<serverScope, incomingDraft, regen, finRes, fetchLog, ctxLog, pdfLog, dlVars, tblVars, prjVars, genVars, formVars>>

\* one stage of finalizeScope answered: POST finalize_scope ("finalize"), then
\* the project refresh and the three previews ("refresh"), which only feed the
\* project context
FinalizeScopeStep(ok) ==
    /\ fin.pc \in {"finalize", "refresh"}
    /\ serverScope' = IF ok /\ fin.pc = "finalize" THEN fin.draft ELSE serverScope
    /\ IF ok
       THEN /\ fin' = [fin EXCEPT !.pc = NextFinalizeCall(fin.pc),
                                  !.log = Append(fin.log, NextFinalizeCall(fin.pc))]
            /\ IF NextFinalizeCall(fin.pc) = "refetch"
               THEN Enqueue(FinalizeSuccessUpdates)
               ELSE UNCHANGED pend
            /\ UNCHANGED finRes
       ELSE /\ fin' = [fin EXCEPT !.pc = "idle"]
            /\ Enqueue(FinalizeFailureUpdates)
            /\ finRes' = [failedAt |-> "finalizeScope", finBefore |-> fin.finBefore,
                          wroteFinal |-> "isFinalized" \in DOMAIN FinalizeFailureUpdates,
                          wroteText |-> "jsonText" \in DOMAIN FinalizeFailureUpdates,
                          errToast |-> TRUE,
                          finalizingOff |-> ~Apply(Apply(st, pend), FinalizeFailureUpdates).finalizing,
                          finAfter |-> Apply(Apply(st, pend), FinalizeFailureUpdates).isFinalized]
    /\ UNCHANGED <<st, prevJsonRef, cachedPdfBlobRef, incomingDraft, loads, regen,
                   pdfReqs, budget, detectLog, fetchLog, ctxLog, urls, pdfLog, dlVars, tblVars, prjVars, genVars, formVars>>

\* the re-fetch of the persisted scope answered (lines 351-360)
FinalizeRefetchResp(reply) ==
    /\ fin.pc = "refetch"
    /\ reply \in ScopeReplies(serverScope)
    /\ LET result == getFinalizedScope(reply)
           q == IF result = "raise" THEN FinalizeFailureUpdates
                ELSE FinalizeRefetchUpdates(result, serverScope)
           after == Apply(Apply(st, pend), q)
       IN  /\ Enqueue(q)
           /\ finRes' = [failedAt |-> IF result = "raise" THEN "refetch" ELSE "none",
                         finBefore |-> fin.finBefore,
                         wroteFinal |-> TRUE,
                         wroteText |-> "jsonText" \in DOMAIN q,
                         errToast |-> result = "raise",
                         finalizingOff |-> ~after.finalizing,
                         finAfter |-> after.isFinalized]
           \* a blob that is still cached now was rendered before this finalize
           /\ cachedPdfBlobRef' = IF result # "raise" /\ cachedPdfBlobRef # NoBlob
                                  THEN [cachedPdfBlobRef EXCEPT !.pre = TRUE]
                                  ELSE cachedPdfBlobRef
    /\ fin' = [fin EXCEPT !.pc = "idle"]
    /\ UNCHANGED <<st, prevJsonRef, serverScope, incomingDraft, loads, regen,
                   pdfReqs, budget, detectLog, fetchLog, ctxLog, urls, pdfLog, dlVars, tblVars, prjVars, genVars, formVars>>

\* -------------------------------------------------------- handleRegenerate

\* Enter / send button (disabled while regenerating or without a draft)
HandleRegenerate ==
    /\ budget > 0
    /\ regen = "idle"
    /\ ParsedDraft(st.jsonText) # Null
    /\ regen' = "call"
    /\ CommitEffects(pend)
    /\ budget' = budget - 1
    /\ UNCHANGED <<serverScope, incomingDraft, fin, finRes, fetchLog, ctxLog, pdfLog, dlVars, tblVars, prjVars, genVars, formVars>>

\* lines 142-143
RegenerateUpdates(updated) ==
    Upd(Upd(NoUpd, "jsonText", Stringify2(updated)), "isFinalized", FALSE)

\* regenerateScope answered (lines 140-151)
RegenerateResp(ok, updated) ==
    /\ regen = "call"
    /\ regen' = "idle"
    /\ Enqueue(IF ok THEN RegenerateUpdates(updated) ELSE NoUpd)
    /\ UNCHANGED <<st, prevJsonRef, cachedPdfBlobRef, serverScope, incomingDraft, loads,
                   fin, pdfReqs, budget, detectLog, finRes, fetchLog, ctxLog, urls, pdfLog, dlVars, tblVars, prjVars, genVars, formVars>>

\* ------------------------------------------------------------- PDF preview

\* previewPdf's fetch of the finalized scope answered (ExportContext lines
\* 61-65): the PDF is rendered from the persisted scope if there is one and
\* from the draft otherwise; nothing is rendered from an empty object, and the
\* page takes the null it gets for an invalid PDF (lines 261-264); a rejection
\* reaches the page's catch block (lines 271-274)
PdfScopeResp(c, reply) ==
    /\ BagIn(c, pdfReqs)
    /\ c.pc = "scope"
    /\ reply \in ScopeReplies(serverScope)
    /\ LET result == ExportContext_getFinalizedScope(reply)
           end == handleExportEnd(exportToJson(reply) = "resolved")
           data == PreviewData(IF result = "data" THEN serverScope ELSE Null, c.key)
           goes == result # "raise" /\ ~PreviewDataEmpty(data)
       IN  /\ Enqueue(IF goes THEN Merge(end, handleExportStart) ELSE end)
           /\ pdfReqs' = (pdfReqs (-) SetToBag({c})) (+)
                            (IF goes THEN SetToBag({[c EXCEPT !.pc = "pdf", !.data = data]})
                             ELSE EmptyBag)
           /\ ctxLog' = IF reply = "http400" /\ ~goes THEN "handled400" ELSE "-"
           /\ pdfLog' = IF goes THEN pdfLog
                        ELSE IF result = "raise"
                        THEN [outcome |-> "error", toast |-> "failed", stored |-> FALSE,
                              shown |-> FALSE]
                        ELSE [outcome |-> "missing", toast |-> "invalid", stored |-> FALSE,
                              shown |-> FALSE]
    /\ UNCHANGED <<st, prevJsonRef, cachedPdfBlobRef, serverScope, incomingDraft, loads,
                   fin, regen, budget, detectLog, finRes, fetchLog, urls, dlVars, tblVars, prjVars, genVars, formVars>>

\* line 261: !blob || blob.size === 0 || blob.type !== "application/pdf"
PdfBlobValid(outcome) == outcome = "pdf"

\* the PDF fetch answered (part_001 lines 257-274): getPdfBlob of a finalized
\* page, or the render requested by previewPdf.  The answer is a PDF, a
\* zero-byte body, a body of another type, or a failure.
PdfBlobResp(c, outcome) ==
    /\ BagIn(c, pdfReqs)
    /\ c.pc = "pdf"
    /\ LET doc == IF c.isFin THEN serverScope ELSE c.data
           blob == [key |-> c.key, kind |-> IF c.isFin THEN "export" ELSE "preview",
                    doc |-> doc, pre |-> FALSE, size |-> IF outcome = "empty" THEN 0 ELSE 1,
                    type |-> IF outcome = "html" THEN "text/html" ELSE "application/pdf"]
           end == handleExportEnd(outcome # "error")
           \* line 269: the URL this closure saw is revoked, then a new one created
           live1 == urls.live \ {c.shown}
           created == FreshUrl(live1)
       IN  /\ outcome = "pdf" => doc # Null
           /\ IF PdfBlobValid(outcome)
              THEN /\ cachedPdfBlobRef' = blob
                   /\ urls' = [urls EXCEPT !.live = live1 \cup {created}]
                   /\ Enqueue(SetPreviewPdfUrl(end, blob, created))
              ELSE /\ UNCHANGED <<cachedPdfBlobRef, urls>>
                   /\ Enqueue(end)
           /\ pdfLog' = [outcome |-> outcome,
                         toast |-> IF outcome = "error" THEN "failed"
                                   ELSE IF PdfBlobValid(outcome) THEN "-" ELSE "invalid",
                         stored |-> cachedPdfBlobRef' = blob,
                         shown |-> PdfBlobValid(outcome)]
    /\ pdfReqs' = pdfReqs (-) SetToBag({c})
    /\ ctxLog' = "-"
    /\ UNCHANGED <<st, prevJsonRef, serverScope, incomingDraft, loads, fin, regen,
                   budget, detectLog, finRes, fetchLog, dlVars, tblVars, prjVars, genVars, formVars>>

\* the page is left: the component is torn down and the cleanup of the effect
\* on [previewPdfUrl] runs (lines 236-240); pending updates are dropped
Unmount ==
    /\ urls.mounted
    /\ urls' = [live |-> urls.live \ {st.urlId}, mounted |-> FALSE]
    /\ pend' = NoUpd
    /\ UNCHANGED <<st, prevJsonRef, cachedPdfBlobRef, serverScope, incomingDraft, loads,
                   fin, regen, pdfReqs, budget, detectLog, finRes, fetchLog, ctxLog, pdfLog,
                   dlVars, tblVars, prjVars, genVars, formVars>>

\* --------------------------------------------------------------- downloads

Percents == {0, 50, 100}

\* the request options the exportApi functions hand to axios out of the ones
\* downloadFile passes them ("signal", "onDownloadProgress"): they take
\* (projectId) alone
exportApi_options(opts) == {}

startDownload(s, key, controller) ==
    [s EXCEPT ![key] = [@ EXCEPT !.loading = TRUE, !.progress = 0,
                                 !.controller = controller]]

updateProgress(s, key, percent) == [s EXCEPT ![key] = [@ EXCEPT !.progress = percent]]

finishDownload_KeepsController(s, key) ==
    [s EXCEPT ![key] = [@ EXCEPT !.loading = FALSE, !.progress = 100]]

finishDownload(s, key) ==
    [s EXCEPT ![key] = [@ EXCEPT !.loading = FALSE, !.progress = 100,
                                 !.controller = NoController]]

resetDownload_All(s, key) == [k \in DOMAIN s |-> IdleEntry]

resetDownload(s, key) == [s EXCEPT ![key] = IdleEntry]

\* safeFileName (part_000 lines 4-5): every run of whitespace becomes one "_",
\* the name is lower-cased, "." and the extension are appended.  A name is a
\* sequence of characters.
RECURSIVE Underscored(_)
Underscored(name) ==
    IF name = <<>> THEN <<>>
    ELSE IF Head(name) = " "
    THEN (IF Len(name) > 1 /\ name[2] = " " THEN Underscored(Tail(name))
          ELSE <<"_">> \o Underscored(Tail(name)))
    ELSE <<Head(name)>> \o Underscored(Tail(name))

ToLowerCase(name) == [i \in DOMAIN name |-> IF name[i] = "A" THEN "a" ELSE name[i]]

safeFileName(name, ext) == ToLowerCase(Underscored(name)) \o <<".", ext>>

\* parsedDraft?.overview?.["Project Name"] || `project_${id}` (lines 409, 436)
ProjectName(parsedDraft) ==
    IF parsedDraft = "S1" THEN <<"A", " ", " ", "b">> ELSE <<"p", "_", "1">>

\* the extension each export is saved under (lines 410, 418, 426, 440-453)
Ext(endpoint) == IF endpoint = "excel" THEN "xlsx" ELSE endpoint

\* the requests of one download, in order: one for a single file, three for
\* the zip (lines 439-452)
FirstFetch(key) == IF key = "all" THEN "json" ELSE key

NextFetch_SkipsPdf(key, pc) ==
    CASE key = "all" /\ pc = "json" -> "excel"
      [] OTHER -> "done"

NextFetch(key, pc) ==
    CASE key = "all" /\ pc = "json" -> "excel"
      [] key = "all" /\ pc = "excel" -> "pdf"
      [] OTHER -> "done"

\* what an export endpoint can answer with: the export, a zero-byte body, a
\* body of another content type (an HTML page), an application/json error
\* document in place of a binary export, or a failure; a request that was
\* handed the signal of an aborted controller can only fail
FetchOutcomes(endpoint, controller) ==
    IF "signal" \in exportApi_options({"signal", "onDownloadProgress"})
       /\ controller \in aborted
    THEN {"error"}
    ELSE IF endpoint \in {"excel", "pdf"} THEN {"ok", "empty", "html", "jsondetail", "error"}
    ELSE {"ok", "empty", "html", "error"}

\* fetchExportBlob (part_000 lines 8-24): rejects a failed request and a
\* response whose content type is application/json, returns every other body
fetchExportBlob(outcome) ==
    IF outcome \in {"error", "jsondetail"} THEN [raise |-> TRUE, body |-> outcome, size |-> 0]
    ELSE [raise |-> FALSE, body |-> outcome, size |-> IF outcome = "empty" THEN 0 ELSE 1]

\* exportApi.exportToJson (part_000 lines 79-82) followed by
\* JSON.stringify(data, null, 2): whatever body axios parsed is serialized,
\* and the serialization of an empty body is the two characters ""
exportJsonText(outcome) ==
    IF outcome = "error" THEN [raise |-> TRUE, body |-> outcome, size |-> 0]
    ELSE [raise |-> FALSE, body |-> outcome, size |-> 1]

ExportResult(endpoint, outcome) ==
    IF endpoint = "json" THEN exportJsonText(outcome) ELSE fetchExportBlob(outcome)

\* downloadFile line 378 (single downloads only): !blob || blob.size === 0;
\* handleDownloadAll adds whatever resolved to the zip
DownloadFileRejects(key, res) == res.raise \/ (key # "all" /\ res.size = 0)

\* catch block, lines 389-396 and 459-466
FailureToast(controller) == IF controller \in aborted THEN "cancelled" ELSE "error"

\* the buttons of a single download are part of the tab of its type
ButtonShown(key, activeTab) == key = "all" \/ activeTab = key

\* a download button (shown on a finalized page, disabled while loading):
\* downloadFile / handleDownloadAll up to the first await
StartDownload(key) ==
    /\ urls.mounted
    /\ st.isFinalized
    /\ ButtonShown(key, st.activeTab)
    /\ ~downloadState[key].loading
    /\ nextController <= MaxControllers
    /\ downloadState' = startDownload(downloadState, key, nextController)
    /\ dlOps' = [dlOps EXCEPT ![key] = [pc |-> FirstFetch(key), controller |-> nextController,
                                         name |-> ProjectName(ParsedDraft(st.jsonText)),
                                         zip |-> {}, bad |-> FALSE]]
    /\ nextController' = nextController + 1
    /\ dlKey' = key
    /\ UNCHANGED <<pageVars, tblVars, prjVars, genVars, formVars, aborted, dlLog>>

\* a cancel button: downloadState[key].controller?.abort()
CancelDownload(key) ==
    /\ urls.mounted
    /\ downloadState[key].loading
    /\ ButtonShown(key, st.activeTab)
    /\ downloadState[key].controller # NoController
    /\ aborted' = aborted \cup {downloadState[key].controller}
    /\ dlKey' = key
    /\ UNCHANGED <<pageVars, tblVars, prjVars, genVars, formVars, downloadState, dlOps, nextController, dlLog>>

\* one request of a download answered: the file is saved, or added to the zip
\* and the next request sent, or the catch block runs.  zip holds the names of
\* the entries, bad says that a saved body is zero-byte or of another type
\* than the export.
DownloadResp(key, outcome) ==
    /\ dlOps[key].pc # "idle"
    /\ outcome \in FetchOutcomes(dlOps[key].pc, dlOps[key].controller)
    /\ dlKey' = key
    /\ LET op == dlOps[key]
           res == ExportResult(op.pc, outcome)
           ok == ~DownloadFileRejects(key, res)
           \* zip.file replaces an entry of the same name
           files == op.zip \cup {safeFileName(op.name, Ext(op.pc))}
           bad == op.bad \/ res.body # "ok"
       IN  IF ok /\ NextFetch(key, op.pc) # "done"
           THEN /\ dlOps' = [dlOps EXCEPT ![key].pc = NextFetch(key, op.pc),
                                          ![key].zip = files, ![key].bad = bad]
                /\ UNCHANGED <<downloadState, dlLog, aborted>>
           ELSE /\ dlOps' = [dlOps EXCEPT ![key] = IdleOp]
                /\ downloadState' = IF ok
                                    THEN finishDownload(downloadState, key)
                                    ELSE resetDownload(downloadState, key)
                /\ dlLog' = [key |-> key,
                             cancelled |-> op.controller \in aborted,
                             saved |-> ok,
                             files |-> IF ok THEN files ELSE {},
                             bad |-> ok /\ bad,
                             toast |-> IF ok THEN "success" ELSE FailureToast(op.controller)]
                \* the controller of a download that ended is referenced no more
                /\ aborted' = aborted \ {op.controller}
    /\ UNCHANGED <<pageVars, tblVars, prjVars, genVars, formVars, nextController>>

\* ------------------------------------------------------------ table editor

\* JSON values of a cell: a number, the decimal string of a number, the en-US
\* currency string of a number ("$1,000.00"), any other string (s, possibly
\* empty), null; and what JavaScript adds: undefined and NaN.
Num(n) == [t |-> "num", n |-> n, s |-> ""]
NumStr(n) == [t |-> "numstr", n |-> n, s |-> ""]
Cur(n) == [t |-> "cur", n |-> n, s |-> ""]
Str(x) == [t |-> "str", n |-> 0, s |-> x]
JsNull == [t |-> "null", n |-> 0, s |-> ""]
Undefined == [t |-> "undefined", n |-> 0, s |-> ""]
NaN == [t |-> "nan", n |-> 0, s |-> ""]

\* v == null || v === "" and the falsy values of `v || 0`
IsNullish(v) == v.t \in {"null", "undefined"}
IsFalsy(v) == IsNullish(v) \/ v = Str("") \/ v = Num(0) \/ v = NaN

\* Number(v) and parseFloat(v) of a value that is not falsy: a "$" in front
\* makes both NaN
ToNumber(v) == IF v.t \in {"num", "numstr"} THEN Num(v.n) ELSE NaN

\* formatCurrency (lines 37-46)
formatCurrency(v) ==
    IF IsNullish(v) \/ v = Str("") THEN Str("")
    ELSE IF ToNumber(v) = NaN THEN v
    ELSE Cur(ToNumber(v).n)

\* An object is the sequence of its fields in key order.  The key of a row of
\* an array section is a header, written as the sequence of the tokens that
\* split(" ") gives; the key of an overview field is the string in its cell.
Field(k, v) == [k |-> k, v |-> v]

ObjectKeys(obj) == [i \in DOMAIN obj |-> obj[i].k]

HasKey(obj, k) == \E i \in DOMAIN obj : obj[i].k = k

Get(obj, k) ==
    IF HasKey(obj, k) THEN obj[CHOOSE i \in DOMAIN obj : obj[i].k = k].v ELSE Undefined

\* obj[k] = v: an existing key keeps its place, a new key goes last, except
\* that a key that is an integer goes before the string keys
SetKey(obj, k, v) ==
    IF HasKey(obj, k) THEN [i \in DOMAIN obj |-> IF obj[i].k = k THEN Field(k, v) ELSE obj[i]]
    ELSE IF k.t = "numstr" THEN <<Field(k, v)>> \o obj
    ELSE Append(obj, Field(k, v))

\* JSON.stringify followed by JSON.parse of an object: a field that is
\* undefined is left out, NaN becomes null
RECURSIVE JsonObject(_)
JsonObject(obj) ==
    IF obj = <<>> THEN <<>>
    ELSE IF Head(obj).v = Undefined THEN JsonObject(Tail(obj))
    ELSE <<Field(Head(obj).k, IF Head(obj).v = NaN THEN JsNull ELSE Head(obj).v)>>
            \o JsonObject(Tail(obj))

\* h.toLowerCase().includes("rate") || h.toLowerCase().includes("cost"), line 300
IsRateOrCost(h) == \E i \in DOMAIN h : h[i] \in {"Rate/month", "Rate", "Cost"}

\* h.split(" ").length === 2, line 309
IsMonthCol(h) == Len(h) = 2

RateMonth == <<"Rate/month">>

RECURSIVE SumOver(_, _)
SumOver(f, idx) ==
    IF idx = {} THEN 0
    ELSE LET i == CHOOSE j \in idx : TRUE IN f[i] + SumOver(f, idx \ {i})

\* lines 314-317: parseFloat(r[m] || 0) || 0, summed over the month columns
MonthEffort(v) == IF IsFalsy(v) \/ ToNumber(v) = NaN THEN 0 ELSE ToNumber(v).n

SumMonths(headers, r) ==
    LET monthCols == {j \in DOMAIN headers : IsMonthCol(headers[j])}
    IN  SumOver([j \in monthCols |-> MonthEffort(Get(r, headers[j]))], monthCols)

\* line 318: parseFloat(r["Rate/month"] || 0)
RowRate(r) == IF IsFalsy(Get(r, RateMonth)) THEN Num(0) ELSE ToNumber(Get(r, RateMonth))

TotalEfforts(headers, arr) ==
    SumOver([i \in DOMAIN arr |-> SumMonths(headers, arr[i])], DOMAIN arr)

\* lines 313-321: NaN * x and NaN + x are NaN
TotalCost(headers, arr) ==
    IF \E i \in DOMAIN arr : RowRate(arr[i]) = NaN THEN NaN
    ELSE Num(SumOver([i \in DOMAIN arr |-> SumMonths(headers, arr[i]) * RowRate(arr[i]).n],
                     DOMAIN arr))

\* lines 323-327 (the efforts are whole numbers here, which toFixed(2) keeps)
TotalRow(headers, arr) ==
    [idx \in DOMAIN headers |->
        IF idx = Len(headers) - 1 THEN Num(TotalEfforts(headers, arr))
        ELSE IF idx = Len(headers) THEN formatCurrency(TotalCost(headers, arr))
        ELSE IF idx = 1 THEN Str("Total") ELSE Str("")]

NoPreview == [headers |-> <<>>, rows |-> <<>>, total |-> FALSE]

Sections == {"overview", "activities", "resourcing_plan"}

\* the Excel preview effect, lines 288-336
Preview(draft, section) ==
    IF section = "overview"
    THEN [headers |-> << <<"Field">>, <<"Value">> >>,
          rows |-> [i \in DOMAIN draft.overview |->
                       <<draft.overview[i].k, draft.overview[i].v>>],
          total |-> FALSE]
    ELSE IF section \in Sections /\ draft[section] # <<>>
    THEN LET arr == draft[section]
             headers == ObjectKeys(arr[1])
             rows == [i \in DOMAIN arr |->
                        [j \in DOMAIN headers |->
                            IF IsRateOrCost(headers[j])
                            THEN formatCurrency(Get(arr[i], headers[j]))
                            ELSE Get(arr[i], headers[j])]]
         IN  IF section = "resourcing_plan"
             THEN [headers |-> headers, rows |-> Append(rows, TotalRow(headers, arr)),
                   total |-> TRUE]
             ELSE [headers |-> headers, rows |-> rows, total |-> FALSE]
    ELSE NoPreview

RECURSIVE OverviewOf(_)
\* lines 113-116: newRows.forEach(([k, v]) => { if (k) newOverview[k] = v; })
OverviewOf(rows) ==
    IF rows = <<>> THEN <<>>
    ELSE LET front == OverviewOf(SubSeq(rows, 1, Len(rows) - 1))
             last == rows[Len(rows)]
         IN  IF IsFalsy(last[1]) THEN front ELSE SetKey(front, last[1], last[2])

\* lines 122-127: one object per row, one field per header
RowObject(headers, row) == [j \in DOMAIN headers |-> Field(headers[j], row[j])]

\* updateParsedDraft (lines 108-131): the draft that the new JSON text parses to
updateParsedDraft(draft, section, headers, newRows) ==
    IF section = "overview"
    THEN [draft EXCEPT !.overview = JsonObject(OverviewOf(newRows))]
    ELSE [draft EXCEPT ![section] =
            [i \in DOMAIN newRows |-> JsonObject(RowObject(headers, newRows[i]))]]

\* const isTotal = row[0] === "Total" (line 681): such a row has no input
\* and no Delete button
IsTotal(row) == Len(row) > 0 /\ row[1] = Str("Total")

\* what the user can type into a cell
EditValues == {Str("QA"), NumStr(3), Str("")}

DevRow == <<Field(<<"Role">>, Str("Dev")), Field(RateMonth, Num(1000)),
            Field(<<"Month", "1">>, Num(2)), Field(<<"Month", "2">>, Num(1))>>

OpsRow == <<Field(<<"Role">>, Str("Ops")), Field(RateMonth, Num(500)),
            Field(<<"Month", "1">>, Num(1)), Field(<<"Month", "2">>, Num(0))>>

Plans == {<<>>, <<DevRow>>, <<DevRow, OpsRow>>}

DraftWith(plan) ==
    [overview |-> <<Field(Str("Project Name"), Str("A  b")), Field(Str("Domain"), Str("Fintech"))>>,
     activities |-> <<<<Field(<<"Activity">>, Str("Design")), Field(<<"Status">>, Str("ongoing"))>>>>,
     resourcing_plan |-> plan]

NoTableLog == [op |-> "-", section |-> "", i |-> 0, j |-> 0, v |-> Str(""),
               wroteTotal |-> FALSE]

InitTable(plans) ==
    /\ tblDraft \in {DraftWith(plan) : plan \in plans}
    /\ excelSection = ""
    /\ excelPreview = NoPreview
    /\ tblBudget = MaxTableEdits
    /\ tblLog = NoTableLog

\* the Excel tab is open on a draft that parsed and no section is chosen: the
\* effect picks the first section (line 285) and, in the render that follows,
\* fills the preview
ShowExcelTab ==
    /\ urls.mounted /\ st.activeTab = "excel"
    /\ excelSection = ""
    /\ excelSection' = "overview"
    /\ excelPreview' = Preview(tblDraft, "overview")
    /\ UNCHANGED <<pageVars, dlVars, prjVars, genVars, formVars, tblDraft, tblBudget, tblLog>>

\* the section <select>
SelectSection(section) ==
    /\ urls.mounted /\ st.activeTab = "excel"
    /\ excelSection # ""
    /\ section # excelSection
    /\ excelSection' = section
    /\ excelPreview' = Preview(tblDraft, section)
    /\ UNCHANGED <<pageVars, dlVars, prjVars, genVars, formVars, tblDraft, tblBudget, tblLog>>

\* a table handler called setExcelPreview and updateParsedDraft with newRows:
\* the text is re-serialized and, when it changed, the effect rebuilds the
\* preview from the new draft
WriteBack(op, i, j, v, newRows) ==
    LET draft == updateParsedDraft(tblDraft, excelSection, excelPreview.headers, newRows)
    IN  /\ urls.mounted /\ st.activeTab = "excel"
        /\ tblBudget > 0
        /\ tblBudget' = tblBudget - 1
        /\ tblDraft' = draft
        /\ excelPreview' = IF draft = tblDraft
                           THEN [excelPreview EXCEPT !.rows = newRows]
                           ELSE Preview(draft, excelSection)
        /\ tblLog' = [op |-> op, section |-> excelSection, i |-> i, j |-> j, v |-> v,
                      wroteTotal |-> excelPreview.total
                                     /\ (op # "delete" \/ i # Len(excelPreview.rows))]
        /\ UNCHANGED <<pageVars, dlVars, prjVars, genVars, formVars, excelSection>>

\* onChange of a cell's input (lines 704-709)
EditCell(i, j, v) ==
    /\ i \in DOMAIN excelPreview.rows
    /\ j \in DOMAIN excelPreview.headers
    /\ ~IsTotal(excelPreview.rows[i])
    /\ v # excelPreview.rows[i][j]
    /\ WriteBack("edit", i, j, v, [excelPreview.rows EXCEPT ![i][j] = v])

\* the Delete button of a row (lines 722-726)
DeleteRow(i) ==
    /\ i \in DOMAIN excelPreview.rows
    /\ ~IsTotal(excelPreview.rows[i])
    /\ WriteBack("delete", i, 0, Str(""),
                 [k \in 1..(Len(excelPreview.rows) - 1) |->
                     IF k < i THEN excelPreview.rows[k] ELSE excelPreview.rows[k + 1]])

\* the Add New button (lines 744-749), shown with the table
AddRow ==
    /\ excelPreview.headers # <<>>
    /\ WriteBack("add", 0, 0, Str(""),
                 Append(excelPreview.rows, [j \in DOMAIN excelPreview.headers |-> Str("")]))

\* ---------------------------------------------------------- ProjectContext

\* A project is a record of its id and the fields the list shows.
ProjectIds == {1, 2}

Project(id, name) == [id |-> id, name |-> name]

\* the data of an update: { ...p, ...next } replaces the fields next has
ProjectData == {[name |-> "b"]}

\* replaceById (lines 7-8)
replaceById(list, id, next) ==
    [i \in DOMAIN list |-> IF list[i].id = id THEN [list[i] EXCEPT !.name = next.name]
                           ELSE list[i]]

\* removeById (line 10)
removeById(list, id) == SelectSeq(list, LAMBDA q : q.id # id)

\* setProjects with a function of the current list, or with a list
ApplySetProjects(cur, u) ==
    CASE u.kind = "replace" -> replaceById(cur, u.id, u.next)
      [] u.kind = "remove" -> removeById(cur, u.id)
      \* [full, ...removeById(prev, id)]
      [] u.kind = "prepend" -> u.list \o removeById(cur, u.id)
      \* [tempProject, ...prev]
      [] u.kind = "insert" -> u.list \o cur
      [] OTHER -> u.list

RECURSIVE ApplyAllSetProjects(_, _)
ApplyAllSetProjects(cur, updates) ==
    IF updates = <<>> THEN cur
    ELSE ApplyAllSetProjects(ApplySetProjects(cur, Head(updates)), Tail(updates))

NoList == <<>>

\* the updates enqueued after one more setProjects call; the updates before a
\* setProjects(list) no longer matter
RECURSIVE EnqueueSetProjects(_, _)
EnqueueSetProjects(pending, updates) ==
    IF updates = <<>> THEN pending
    ELSE EnqueueSetProjects(IF Head(updates).kind = "set" THEN <<Head(updates)>>
                            ELSE Append(pending, Head(updates)),
                            Tail(updates))

\* the optimistic update of each mutation (lines 87, 103, 117)
OptimisticUpdate(kind, id, data) ==
    CASE kind = "update" -> [kind |-> "replace", id |-> id, next |-> data, list |-> NoList]
      [] kind = "delete" -> [kind |-> "remove", id |-> id, next |-> data, list |-> NoList]
      [] OTHER -> [kind |-> "set", id |-> id, next |-> data, list |-> NoList]

Rollback_Empties(op) == [kind |-> "set", id |-> op.id, next |-> op.data, list |-> NoList]

\* catch blocks (lines 94, 109, 122): setProjects(prev)
Rollback(op) == [kind |-> "set", id |-> op.id, next |-> op.data, list |-> op.prev]

\* updateProject line 91: replaceById(cur, id, res.data || data), where the
\* body of the answer, if any, is the project as updated; the other mutations
\* set nothing on success
SuccessUpdates(op) ==
    IF op.kind = "update"
    THEN <<[kind |-> "replace", id |-> op.id, next |-> op.data, list |-> NoList]>>
    ELSE <<>>

\* what the backend does with a mutation it accepts
Backend(list, op) ==
    CASE op.kind = "update" -> replaceById(list, op.id, op.data)
      [] op.kind = "delete" -> removeById(list, op.id)
      [] OTHER -> <<>>

NoProjectLog == [kind |-> "-", failed |-> FALSE, raised |-> FALSE, restored |-> FALSE,
                 undone |-> FALSE]

ProjectLists == {<<Project(1, "a"), Project(2, "a")>>, <<Project(2, "a")>>}

InitProjects(lists) ==
    /\ projects = <<>>
    /\ prjPend = <<>>
    /\ prjOps = {}
    /\ srvProjects \in lists
    /\ prjBudget = MaxProjectCalls
    /\ prjLog = NoProjectLog

\* the provider renders: the enqueued updates are applied in order
RenderProjects ==
    /\ prjPend # <<>>
    /\ projects' = ApplyAllSetProjects(projects, prjPend)
    /\ prjPend' = <<>>
    /\ UNCHANGED <<pageVars, dlVars, tblVars, genVars, formVars, prjOps, srvProjects, prjBudget, prjLog>>

\* fetchProjects up to its await (lines 25-28)
FetchProjects ==
    /\ \A op \in prjOps : op.kind # "fetch"
    /\ prjOps' = prjOps \cup {[kind |-> "fetch", id |-> 0, data |-> [name |-> "-"],
                               prev |-> <<>>]}
    /\ UNCHANGED <<pageVars, dlVars, tblVars, genVars, formVars, projects, prjPend, srvProjects, prjBudget, prjLog>>

\* updateProject, deleteProject, deleteAllProjects up to their await: the list
\* of this render is kept in prev and the optimistic update is enqueued
StartMutation(kind, id, data) ==
    /\ prjBudget > 0
    /\ LET op == [kind |-> kind, id |-> IF kind = "deleteAll" THEN 0 ELSE id, data |-> data,
                  prev |-> projects]
       IN  /\ op \notin prjOps
           /\ prjOps' = prjOps \cup {op}
           /\ prjPend' = EnqueueSetProjects(prjPend, <<OptimisticUpdate(kind, op.id, data)>>)
    /\ prjBudget' = prjBudget - 1
    /\ UNCHANGED <<pageVars, dlVars, tblVars, genVars, formVars, projects, srvProjects, prjLog>>

\* the backend answered an operation of the project context
ProjectResp(op, ok) ==
    /\ op \in prjOps
    /\ prjOps' = prjOps \ {op}
    /\ LET updates == IF op.kind = "fetch"
                      THEN (IF ok THEN <<[kind |-> "set", id |-> 0, next |-> op.data,
                                          list |-> srvProjects]>>
                            ELSE <<>>)
                      ELSE IF ok THEN SuccessUpdates(op) ELSE <<Rollback(op)>>
       IN  /\ prjPend' = EnqueueSetProjects(prjPend, updates)
           /\ srvProjects' = IF ok /\ op.kind # "fetch" THEN Backend(srvProjects, op)
                             ELSE srvProjects
           /\ prjLog' = [kind |-> op.kind, failed |-> ~ok,
                         \* fetchProjects swallows its failure, the mutations re-throw
                         raised |-> ~ok /\ op.kind # "fetch",
                         \* the list after this answer is the list the operation
                         \* started from
                         restored |-> ApplyAllSetProjects(projects, prjPend') = op.prev,
                         \* and it was another, not empty, list before
                         undone |-> op.prev # <<>>
                                    /\ ApplyAllSetProjects(projects, prjPend) # op.prev]
    /\ UNCHANGED <<pageVars, dlVars, tblVars, genVars, formVars, projects, prjBudget>>

\* ------------------------------------------- the form of a new project

\* An entry of data.files: what its content is an instance of, and its
\* declared type.  The form makes { file, type: "" } of every chosen File
\* (part_003 lines 181, 193).
FileTypes == {"", "rfp", "notes"}

Attachment(content, type) == [content |-> content, type |-> type]

\* appendIfPresent (projectApi.js lines 4-10) for a string value: nothing is
\* appended for a value that is empty once trimmed
appendIfPresent(form, key, value) ==
    IF value = "" THEN form ELSE Append(form, [key |-> key, value |-> value])

\* the body of data.files.forEach (lines 36-44) for one item
AppendAttachment(form, item) ==
    LET withFile == IF item.content \in {"File", "Blob"}
                    THEN Append(form, [key |-> "files", value |-> item.content])
                    ELSE form
    IN  IF item.type # ""
        THEN Append(withFile, [key |-> "file_types", value |-> item.type])
        ELSE withFile

RECURSIVE AppendAttachments(_, _)
AppendAttachments(form, files) ==
    IF files = <<>> THEN form
    ELSE AppendAttachments(AppendAttachment(form, Head(files)), Tail(files))

\* projectApi.createProject (lines 19-45): the FormData of a project named name
CreateProjectForm(name, files) ==
    AppendAttachments(appendIfPresent(<<>>, "name", name), files)

\* the values of one key of a FormData, in order (FormData.getAll)
GetAll(form, key) ==
    LET hits == SelectSeq(form, LAMBDA en : en.key = key)
    IN  [i \in DOMAIN hits |-> hits[i].value]

NoForm == [built |-> FALSE, of |-> <<>>, entries |-> <<>>]

InitForm(lists) ==
    /\ attachments \in lists
    /\ formData = NoForm

\* handleFileChange / handleDrop (part_003 lines 180-195), one file chosen
handleFileChange ==
    /\ Len(attachments) < MaxAttachments
    /\ attachments' = Append(attachments, Attachment("File", ""))
    /\ UNCHANGED <<pageVars, dlVars, tblVars, prjVars, genVars, formData>>

\* handleFileTypeChange (lines 184-190)
handleFileTypeChange(index, type) ==
    /\ index \in DOMAIN attachments
    /\ attachments[index].type # type
    /\ attachments' = [attachments EXCEPT ![index].type = type]
    /\ UNCHANGED <<pageVars, dlVars, tblVars, prjVars, genVars, formData>>

\* handleRemoveFile (lines 197-198)
handleRemoveFile(index) ==
    /\ index \in DOMAIN attachments
    /\ attachments' = [i \in 1..(Len(attachments) - 1) |->
                          IF i < index THEN attachments[i] ELSE attachments[i + 1]]
    /\ UNCHANGED <<pageVars, dlVars, tblVars, prjVars, genVars, formData>>

\* handleSubmit (lines 230-232) hands the form to createProject, which builds
\* the multipart body
SubmitForm ==
    /\ attachments # <<>>
    /\ formData' = [built |-> TRUE, of |-> attachments,
                    entries |-> CreateProjectForm("n", attachments)]
    /\ formData' # formData
    /\ UNCHANGED <<pageVars, dlVars, tblVars, prjVars, genVars, attachments>>

\* ------------------------------------- previews of the project context

\* the three calls of one Promise.all([previewJson, previewExcel, previewPdf])
PreviewCalls == {"json", "excel", "pdf"}

NoCalls == [c \in PreviewCalls |-> "-"]

IssuedCalls == [c \in PreviewCalls |-> "pending"]

\* Promise.all: rejected as soon as one call has rejected, resolved once all
\* have resolved
PromiseAll_AnyResolved(calls) ==
    IF \E c \in PreviewCalls : calls[c] = "ok" THEN "resolved"
    ELSE IF \E c \in PreviewCalls : calls[c] = "failed" THEN "rejected"
    ELSE "pending"

PromiseAll(calls) ==
    IF \E c \in PreviewCalls : calls[c] = "failed" THEN "rejected"
    ELSE IF \A c \in PreviewCalls : calls[c] = "ok" THEN "resolved"
    ELSE "pending"

\* lastPreviewScope: null, the body previewJson answered with for a scope, or
\* a scope itself
NoPreviewScope == [src |-> "null", scope |-> Null]

\* a || b with a the body of previewJson (absent when the answer had none)
\* and b a scope or null
JsonPreviewOr(json, scope, other) ==
    IF json = "body" THEN [src |-> "preview", scope |-> scope]
    ELSE IF other = Null THEN NoPreviewScope
    ELSE [src |-> "scope", scope |-> other]

\* regenerateScope lines 131-138: the scope the previews are asked for, given
\* the answer of exportToJson; "raise" when the failure is re-thrown
ScopeToUse_AlwaysDraft(reply, server, draftScope) ==
    IF reply = "error" THEN "raise"
    ELSE IF draftScope = Null THEN "{}" ELSE draftScope

ScopeToUse(reply, server, draftScope) ==
    IF exportToJson(reply) = "resolved"
    THEN (IF reply = "data" THEN server ELSE Null)
    ELSE IF reply = "http400"
    THEN (IF draftScope = Null THEN "{}" ELSE draftScope)
    ELSE "raise"

\* the project the operations of this section work on
GenId == 1

IdleGen == [kind |-> "-", pc |-> "idle", draft |-> Null, scope |-> Null,
            calls |-> NoCalls, json |-> "-"]

NoGenLog == [kind |-> "-", draft |-> Null, ended |-> FALSE, rejected |-> FALSE, fetch |-> "-",
             issued |-> FALSE, used |-> Null, calls |-> NoCalls,
             setPreview |-> FALSE, setList |-> FALSE,
             tempAtHead |-> FALSE, before |-> <<>>, after |-> <<>>]

InitGenerate ==
    /\ genOp = IdleGen
    /\ lastPreviewScope = NoPreviewScope
    /\ genBudget = MaxGenerateCalls
    /\ genLog = NoGenLog

\* createProject, regenerateScope(id, draftScope) or finalizeScope(id,
\* scopeData) is called and runs up to its first await
StartGenerate(kind, draft) ==
    /\ genOp.pc = "idle"
    /\ genBudget > 0
    /\ kind = "create" => draft = Null
    /\ kind = "finalize" => draft # Null
    /\ genOp' = [IdleGen EXCEPT !.kind = kind, !.draft = draft,
                                !.pc = CASE kind = "create" -> "createProject"
                                         [] kind = "regenerate" -> "exportToJson"
                                         [] OTHER -> "finalizeScope"]
    /\ genBudget' = genBudget - 1
    /\ genLog' = [NoGenLog EXCEPT !.kind = kind, !.draft = draft]
    /\ UNCHANGED <<pageVars, dlVars, tblVars, prjVars, formVars, lastPreviewScope>>

\* the catch block of the operation: log and re-throw, no state is set
GenerateRejects(fetch) ==
    /\ genOp' = IdleGen
    /\ genLog' = [genLog EXCEPT !.ended = TRUE, !.rejected = TRUE, !.fetch = fetch,
                                !.calls = genOp.calls]
    /\ UNCHANGED <<lastPreviewScope, projects, prjPend, srvProjects, serverScope>>

\* the three preview calls are issued for a scope
IssuePreviews(scope, fetch) ==
    /\ genOp' = [genOp EXCEPT !.pc = "previews", !.scope = scope, !.calls = IssuedCalls]
    /\ genLog' = [genLog EXCEPT !.issued = TRUE, !.used = scope, !.fetch = fetch]
    /\ UNCHANGED lastPreviewScope

\* an await before the previews is answered: projectApi.createProject and
\* generateScope of createProject (lines 52-57), exportToJson of
\* regenerateScope (lines 131-138), finalizeScope and getProjectById of
\* finalizeScope (lines 157-162)
GenerateStep(reply, scope) ==
    /\ genOp.pc \in {"createProject", "generateScope", "exportToJson", "finalizeScope",
                     "getProject"}
    /\ CASE genOp.pc = "createProject" ->
              /\ reply \in {"data", "error"}
              /\ IF reply = "data"
                 THEN /\ genOp' = [genOp EXCEPT !.pc = "generateScope"]
                      /\ srvProjects' = <<Project(GenId, "a")>> \o removeById(srvProjects, GenId)
                      /\ UNCHANGED <<genLog, lastPreviewScope, projects, prjPend, serverScope>>
                 ELSE GenerateRejects("-")
         [] genOp.pc = "generateScope" ->
              /\ reply \in {"data", "error"}
              /\ IF reply = "data"
                 THEN /\ IssuePreviews(scope, "-")
                      /\ UNCHANGED <<projects, prjPend, srvProjects, serverScope>>
                 ELSE GenerateRejects("-")
         [] genOp.pc = "exportToJson" ->
              /\ reply \in ScopeReplies(serverScope)
              /\ IF ScopeToUse(reply, serverScope, genOp.draft) = "raise"
                 THEN GenerateRejects(reply)
                 ELSE /\ IssuePreviews(ScopeToUse(reply, serverScope, genOp.draft), reply)
                      /\ UNCHANGED <<projects, prjPend, srvProjects, serverScope>>
         [] genOp.pc = "finalizeScope" ->
              /\ reply \in {"data", "error"}
              /\ IF reply = "data"
                 THEN \* res.data?.scope || scopeData: the backend stores and
                      \* echoes the scope it was sent
                      /\ genOp' = [genOp EXCEPT !.pc = "getProject", !.scope = genOp.draft]
                      /\ serverScope' = genOp.draft
                      /\ UNCHANGED <<genLog, lastPreviewScope, projects, prjPend, srvProjects>>
                 ELSE GenerateRejects("-")
         [] OTHER ->
              /\ reply \in {"data", "error"}
              /\ reply = "data" => \E i \in DOMAIN srvProjects : srvProjects[i].id = GenId
              /\ IF reply = "data"
                 THEN /\ prjPend' = EnqueueSetProjects(prjPend,
                              <<[kind |-> "replace", id |-> GenId, next |-> [name |-> "a"],
                                 list |-> NoList]>>)
                      /\ IssuePreviews(genOp.scope, "-")
                      /\ UNCHANGED <<projects, srvProjects, serverScope>>
                 ELSE GenerateRejects("-")
    /\ scope \in Scopes
    /\ UNCHANGED <<st, pend, prevJsonRef, cachedPdfBlobRef, incomingDraft, loads, fin, regen,
                   pdfReqs, budget, detectLog, finRes, fetchLog, ctxLog, urls, pdfLog,
                   dlVars, tblVars, formVars, prjOps, prjBudget, prjLog, genBudget>>

\* one of the three preview calls is answered; json is "body" when previewJson
\* answered with a document and "nobody" when its answer had no body.  The
\* continuation of Promise.all runs when the last call resolves, its rejection
\* when the first call rejects.
PreviewResp(c, ok, json) ==
    /\ genOp.pc = "previews"
    /\ genOp.calls[c] = "pending"
    /\ LET calls == [genOp.calls EXCEPT ![c] = IF ok THEN "ok" ELSE "failed"]
           body == IF c = "json" THEN json ELSE genOp.json
       IN  CASE PromiseAll(calls) = "pending" ->
                  /\ genOp' = [genOp EXCEPT !.calls = calls, !.json = body]
                  /\ UNCHANGED <<genLog, lastPreviewScope>>
             [] PromiseAll(calls) = "rejected" ->
                  /\ genOp' = IdleGen
                  /\ genLog' = [genLog EXCEPT !.ended = TRUE, !.rejected = TRUE,
                                              !.calls = calls]
                  /\ UNCHANGED lastPreviewScope
             [] genOp.kind = "create" ->
                  \* line 67: getProjectById is awaited next
                  /\ genOp' = [genOp EXCEPT !.pc = "getProjectAfter", !.calls = calls,
                                            !.json = body]
                  /\ UNCHANGED <<genLog, lastPreviewScope>>
             [] OTHER ->
                  \* line 146: setLastPreviewScope(jsonPreview || null)
                  \* line 171: setLastPreviewScope(jsonPreview || finalizedScope)
                  /\ genOp' = IdleGen
                  /\ lastPreviewScope' =
                        JsonPreviewOr(body, genOp.scope,
                                      IF genOp.kind = "finalize" THEN genOp.scope ELSE Null)
                  /\ genLog' = [genLog EXCEPT !.ended = TRUE, !.calls = calls,
                                              !.setPreview = TRUE]
    /\ UNCHANGED <<pageVars, dlVars, tblVars, prjVars, formVars, genBudget>>

\* createProject after its previews (lines 67-78): the project is fetched,
\* put at the head of the list, and lastPreviewScope is set
CreateRefresh(ok) ==
    /\ genOp.pc = "getProjectAfter"
    /\ genOp' = IdleGen
    /\ IF ok
       THEN /\ prjPend' = EnqueueSetProjects(prjPend,
                    <<[kind |-> "prepend", id |-> GenId, next |-> [name |-> "a"],
                       list |-> <<Project(GenId, "a")>>]>>)
            /\ lastPreviewScope' = JsonPreviewOr(genOp.json, genOp.scope, genOp.scope)
            /\ genLog' = [genLog EXCEPT !.ended = TRUE, !.calls = genOp.calls,
                                        !.setPreview = TRUE, !.setList = TRUE]
       ELSE /\ genLog' = [genLog EXCEPT !.ended = TRUE, !.rejected = TRUE,
                                        !.calls = genOp.calls]
            /\ UNCHANGED <<prjPend, lastPreviewScope>>
    /\ UNCHANGED <<pageVars, dlVars, tblVars, formVars, projects, prjOps, srvProjects,
                   prjBudget, prjLog, genBudget>>

\* ------------------------------ createProject with its optimistic entry

\* the id of the temporary entry, `temp-${Date.now()}` (ProjectContext.jsx
\* line 48), and the id the backend gives the new project
TempId == 0

NewId == 3

\* the list a render would show
CurrentProjects == ApplyAllSetProjects(projects, prjPend)

\* createProject up to its first await (lines 47-53): the temporary entry is
\* put at the head of the list
StartCreate ==
    /\ genOp.pc = "idle"
    /\ genBudget > 0
    /\ \A i \in DOMAIN srvProjects : srvProjects[i].id # NewId
    /\ prjPend' = EnqueueSetProjects(prjPend,
                      <<[kind |-> "insert", id |-> TempId, next |-> [name |-> "n"],
                         list |-> <<Project(TempId, "n")>>]>>)
    /\ genOp' = [IdleGen EXCEPT !.kind = "createOptimistic", !.pc = "optimisticCreate"]
    /\ genBudget' = genBudget - 1
    /\ genLog' = [NoGenLog EXCEPT
                     !.kind = "createOptimistic",
                     !.before = CurrentProjects,
                     !.tempAtHead = LET list == ApplyAllSetProjects(projects, prjPend')
                                    IN  list # <<>> /\ Head(list).id = TempId]
    /\ UNCHANGED <<pageVars, dlVars, tblVars, formVars, projects, prjOps, srvProjects,
                   prjBudget, prjLog, lastPreviewScope>>

\* an await of createProject is answered: projectApi.createProject (line 53),
\* the Promise.all of the three previews (lines 56-60), whose calls end as in
\* calls, or getProjectById (line 62).  A failure runs the catch block (lines
\* 74-78), which removes the temporary entry and re-throws; after the last
\* await the fetched project replaces the temporary entry at the head.
CreateStep(ok, calls, json) ==
    /\ genOp.pc \in {"optimisticCreate", "optimisticPreviews", "optimisticGetProject"}
    /\ genOp.pc = "optimisticPreviews" <=> calls # NoCalls
    /\ genOp.pc = "optimisticPreviews" => (ok <=> PromiseAll(calls) = "resolved")
    /\ genOp.pc = "optimisticPreviews" => PromiseAll(calls) # "pending"
    /\ genOp.pc = "optimisticPreviews" <=> json # "-"
    /\ IF ~ok
       THEN /\ prjPend' = EnqueueSetProjects(prjPend,
                              <<[kind |-> "remove", id |-> TempId, next |-> [name |-> "n"],
                                 list |-> NoList]>>)
            /\ genOp' = IdleGen
            /\ genLog' = [genLog EXCEPT !.ended = TRUE, !.rejected = TRUE,
                                        !.calls = calls,
                                        !.after = ApplyAllSetProjects(projects, prjPend')]
            /\ UNCHANGED <<srvProjects, lastPreviewScope>>
       ELSE CASE genOp.pc = "optimisticCreate" ->
                   /\ srvProjects' = <<Project(NewId, "n")>> \o srvProjects
                   /\ genOp' = [genOp EXCEPT !.pc = "optimisticPreviews", !.scope = "S1"]
                   /\ UNCHANGED <<prjPend, genLog, lastPreviewScope>>
              [] genOp.pc = "optimisticPreviews" ->
                   /\ genOp' = [genOp EXCEPT !.pc = "optimisticGetProject",
                                             !.calls = calls, !.json = json]
                   /\ UNCHANGED <<prjPend, genLog, srvProjects, lastPreviewScope>>
              [] OTHER ->
                   \* line 63: [full, ...removeById(prev, tempId)]
                   /\ prjPend' = EnqueueSetProjects(prjPend,
                                     <<[kind |-> "prepend", id |-> TempId,
                                        next |-> [name |-> "n"],
                                        list |-> <<Project(NewId, "n")>>]>>)
                   \* line 65: jsonPreview || scope || null
                   /\ lastPreviewScope' = JsonPreviewOr(genOp.json, genOp.scope, genOp.scope)
                   /\ genOp' = IdleGen
                   /\ genLog' = [genLog EXCEPT !.ended = TRUE, !.calls = genOp.calls,
                                               !.setPreview = TRUE, !.setList = TRUE,
                                               !.after = ApplyAllSetProjects(projects, prjPend')]
                   /\ UNCHANGED srvProjects
    /\ UNCHANGED <<pageVars, dlVars, tblVars, formVars, projects, prjOps, prjBudget, prjLog,
                   genBudget>>

\* ------------------------------------------------------------------ Spec

Init == InitPage(MaxEvents) /\ InitDownloads /\ InitTable({<<>>}) /\ InitProjects({<<>>})
    /\ InitGenerate /\ InitForm({<<>>})

\* the JSON tab: loading, editing, regenerating, finalizing
Next ==
    \/ Render
    \/ \E v \in Texts : EditText(v)
    \/ \E c \in BagToSet(loads),
          reply \in {"projectError", "data", "error", "http400", "null200"} : LoadResp(c, reply)
    \/ HandleFinalize
    \/ \E ok \in BOOLEAN : FinalizeScopeStep(ok)
    \/ \E reply \in {"data", "error"} : FinalizeRefetchResp(reply)
    \/ HandleRegenerate
    \/ \E ok \in BOOLEAN, s \in Scopes : RegenerateResp(ok, s)

Spec == Init /\ [][Next]_vars

\* the JSON tab of a loaded draft whose text the user has typed, and who from
\* now on only finalizes
InitFin ==
    /\ \E text \in [obj : Scopes, fmt : {"pretty", "compact"}] :
          /\ st = [jsonText |-> text, isFinalized |-> FALSE, justFinalized |-> FALSE,
                   finalizing |-> FALSE, activeTab |-> "json", previewPdfUrl |-> NoBlob,
                   urlId |-> NoUrl, ctxLoading |-> FALSE, ctxError |-> Null]
          /\ prevJsonRef = text
    /\ pend = NoUpd
    /\ cachedPdfBlobRef = NoBlob
    /\ serverScope = Null
    /\ incomingDraft = Null
    /\ loads = EmptyBag
    /\ fin = [pc |-> "idle", draft |-> Null, log |-> <<>>, finBefore |-> FALSE]
    /\ regen = "idle"
    /\ pdfReqs = EmptyBag
    /\ budget = MaxEvents
    /\ detectLog = [just |-> FALSE, differ |-> FALSE]
    /\ finRes = [failedAt |-> "-", finBefore |-> FALSE, wroteFinal |-> FALSE,
                 wroteText |-> FALSE, errToast |-> FALSE,
                 finalizingOff |-> FALSE, finAfter |-> FALSE]
    /\ fetchLog = [reply |-> "-", result |-> "-", draftLoaded |-> FALSE]
    /\ ctxLog = "-"
    /\ urls = [live |-> {}, mounted |-> TRUE]
    /\ pdfLog = NoPdfLog
    /\ InitDownloads /\ InitTable({<<>>}) /\ InitProjects({<<>>})
    /\ InitGenerate /\ InitForm({<<>>})

NextFin ==
    \/ Render
    \/ \E c \in BagToSet(loads),
          reply \in {"projectError", "data", "error", "http400", "null200"} : LoadResp(c, reply)
    \/ HandleFinalize
    \/ \E ok \in BOOLEAN : FinalizeScopeStep(ok)
    \/ \E reply \in {"data", "error"} : FinalizeRefetchResp(reply)

SpecFin == InitFin /\ [][NextFin]_vars

\* the PDF tab of a page whose text comes from the load effect: loading,
\* finalizing, switching between the JSON and the PDF tab, the preview fetches
InitPdf == InitPage(MaxPdfEvents) /\ InitDownloads /\ InitTable({<<>>}) /\ InitProjects({<<>>})
    /\ InitGenerate /\ InitForm({<<>>})

NextPdf ==
    \/ Render
    \/ \E t \in {"json", "pdf"} : SetActiveTab(t)
    \/ \E c \in BagToSet(loads),
          reply \in {"projectError", "data", "error", "http400", "null200"} : LoadResp(c, reply)
    \/ HandleFinalize
    \/ \E ok \in BOOLEAN : FinalizeScopeStep(ok)
    \/ \E reply \in {"data", "error"} : FinalizeRefetchResp(reply)
    \/ \E c \in BagToSet(pdfReqs),
          reply \in {"data", "error", "http400", "null200"} : PdfScopeResp(c, reply)
    \/ \E c \in BagToSet(pdfReqs), outcome \in {"pdf", "empty", "html", "error"} :
          PdfBlobResp(c, outcome)

SpecPdf == InitPdf /\ [][NextPdf]_vars

\* the PDF tab of a page that can be left while a preview is loading
NextUrl ==
    \/ NextPdf
    \/ Unmount

SpecUrl == InitPdf /\ [][NextUrl]_vars

\* the export context under the PDF preview of an edited draft
CtxTexts == {Blank, Garbage, Stringify2("{}"), Stringify2("S1"),
             [obj |-> "S1", fmt |-> "compact"]}

NextCtx ==
    \/ Render
    \/ \E t \in {"json", "pdf"} : SetActiveTab(t)
    \/ \E v \in CtxTexts : EditText(v)
    \/ \E c \in BagToSet(loads),
          reply \in {"projectError", "data", "error", "http400", "null200"} : LoadResp(c, reply)
    \/ \E c \in BagToSet(pdfReqs),
          reply \in {"data", "error", "http400", "null200"} : PdfScopeResp(c, reply)
    \/ \E c \in BagToSet(pdfReqs), outcome \in {"pdf", "empty", "html", "error"} :
          PdfBlobResp(c, outcome)

SpecCtx == Init /\ [][NextCtx]_vars

\* the downloads of a loaded page, on every tab
NextDl ==
    \/ Render
    \/ \E t \in Tabs : SetActiveTab(t)
    \/ \E c \in BagToSet(loads),
          reply \in {"projectError", "data", "error", "http400", "null200"} : LoadResp(c, reply)
    \/ \E key \in Types : StartDownload(key)
    \/ \E key \in Types : CancelDownload(key)
    \/ \E key \in Types, outcome \in {"ok", "empty", "html", "jsondetail", "error"} :
          DownloadResp(key, outcome)

InitDl == InitPage(MaxDlEvents) /\ InitDownloads /\ InitTable({<<>>}) /\ InitProjects({<<>>})
    /\ InitGenerate /\ InitForm({<<>>})

SpecDl == InitDl /\ [][NextDl]_vars

\* finalize and downloads of a loaded page of a finalized project whose
\* backend calls all settle: a call that was sent is answered (resolved,
\* rejected, or rejected as cancelled), and React renders the updates that
\* were enqueued
InitEnd ==
    /\ st = [jsonText |-> Stringify2("S1"), isFinalized |-> TRUE, justFinalized |-> FALSE,
             finalizing |-> FALSE, activeTab |-> "json", previewPdfUrl |-> NoBlob,
             urlId |-> NoUrl, ctxLoading |-> FALSE, ctxError |-> Null]
    /\ prevJsonRef = Stringify2("S1")
    /\ pend = NoUpd
    /\ cachedPdfBlobRef = NoBlob
    /\ serverScope = "S1"
    /\ incomingDraft = Null
    /\ loads = EmptyBag
    /\ fin = [pc |-> "idle", draft |-> Null, log |-> <<>>, finBefore |-> FALSE]
    /\ regen = "idle"
    /\ pdfReqs = EmptyBag
    /\ budget = MaxDlEvents
    /\ detectLog = [just |-> FALSE, differ |-> FALSE]
    /\ finRes = [failedAt |-> "-", finBefore |-> FALSE, wroteFinal |-> FALSE,
                 wroteText |-> FALSE, errToast |-> FALSE,
                 finalizingOff |-> FALSE, finAfter |-> FALSE]
    /\ fetchLog = [reply |-> "-", result |-> "-", draftLoaded |-> FALSE]
    /\ ctxLog = "-"
    /\ urls = [live |-> {}, mounted |-> TRUE]
    /\ pdfLog = NoPdfLog
    \* the downloads before the one that is followed have ended in the catch
    \* block (resetDownload), and their controllers are used up
    /\ downloadState = [k \in Types |-> IdleEntry]
    /\ dlOps = [k \in Types |-> IdleOp]
    /\ aborted = {}
    /\ nextController = MaxControllers
    /\ dlLog = NoOutcome
    /\ dlKey = "-"
    /\ InitTable({<<>>}) /\ InitProjects({<<>>})
    /\ InitGenerate /\ InitForm({<<>>})

NextEnd ==
    \/ Render
    \/ \E t \in Tabs : SetActiveTab(t)
    \/ \E c \in BagToSet(loads),
          reply \in {"projectError", "data", "error", "http400", "null200"} : LoadResp(c, reply)
    \/ HandleFinalize
    \/ \E ok \in BOOLEAN : FinalizeScopeStep(ok)
    \/ \E reply \in {"data", "error", "http400", "null200"} : FinalizeRefetchResp(reply)
    \/ \E key \in Types : StartDownload(key)
    \/ \E key \in Types : CancelDownload(key)
    \/ \E key \in Types, outcome \in {"ok", "empty", "html", "jsondetail", "error"} :
          DownloadResp(key, outcome)

EveryCallSettles ==
    /\ WF_vars(Render)
    /\ WF_vars(\E ok \in BOOLEAN : FinalizeScopeStep(ok))
    /\ WF_vars(\E reply \in {"data", "error", "http400", "null200"} : FinalizeRefetchResp(reply))
    /\ \A key \in Types :
          WF_vars(\E outcome \in {"ok", "empty", "html", "jsondetail", "error"} :
                      DownloadResp(key, outcome))

SpecEnd == InitEnd /\ [][NextEnd]_vars /\ EveryCallSettles

\* the Excel tab of a loaded draft: choosing a section, editing its table
InitTbl ==
    /\ InitPage(MaxDlEvents) /\ serverScope = Null /\ incomingDraft = Null
    /\ InitDownloads /\ InitTable(Plans) /\ InitProjects({<<>>})
    /\ InitGenerate /\ InitForm({<<>>})

NextTbl ==
    \/ \E t \in Tabs : SetActiveTab(t)
    \/ ShowExcelTab
    \/ \E section \in Sections : SelectSection(section)
    \/ \E i \in DOMAIN excelPreview.rows, j \in DOMAIN excelPreview.headers, v \in EditValues :
          EditCell(i, j, v)
    \/ \E i \in DOMAIN excelPreview.rows : DeleteRow(i)
    \/ AddRow

SpecTbl == InitTbl /\ [][NextTbl]_vars


\* the project list: fetching it and the optimistic mutations
InitPrj ==
    /\ InitPage(MaxEvents) /\ serverScope = Null /\ incomingDraft = Null
    /\ InitDownloads /\ InitTable({<<>>}) /\ InitProjects(ProjectLists)
    /\ InitGenerate /\ InitForm({<<>>})

NextPrj ==
    \/ RenderProjects
    \/ FetchProjects
    \/ \E kind \in {"update", "delete", "deleteAll"}, id \in ProjectIds, data \in ProjectData :
          StartMutation(kind, id, data)
    \/ \E op \in prjOps, ok \in BOOLEAN : ProjectResp(op, ok)

SpecPrj == InitPrj /\ [][NextPrj]_vars

\* the mutations of a project list that has been fetched and rendered
InitMut ==
    /\ InitPage(MaxEvents) /\ serverScope = Null /\ incomingDraft = Null
    /\ InitDownloads /\ InitTable({<<>>})
    /\ srvProjects \in ProjectLists
    /\ projects = srvProjects
    /\ prjPend = <<>>
    /\ prjOps = {}
    /\ prjBudget = MaxProjectCalls
    /\ prjLog = NoProjectLog
    /\ InitGenerate /\ InitForm({<<>>})

NextMut ==
    \/ RenderProjects
    \/ \E kind \in {"update", "delete", "deleteAll"}, id \in ProjectIds, data \in ProjectData :
          StartMutation(kind, id, data)
    \/ \E op \in prjOps, ok \in BOOLEAN : ProjectResp(op, ok)

SpecMut == InitMut /\ [][NextMut]_vars

\* the operations of the project context that generate previews
GenDrafts == {Null} \cup Scopes

InitGen ==
    /\ InitPage(MaxEvents) /\ incomingDraft = Null
    /\ InitDownloads /\ InitTable({<<>>}) /\ InitProjects({<<>>, <<Project(GenId, "a")>>})
    /\ InitGenerate /\ InitForm({<<>>})

NextGen ==
    \/ RenderProjects
    \/ \E kind \in {"create", "regenerate", "finalize"}, draft \in GenDrafts :
          StartGenerate(kind, draft)
    \/ \E reply \in {"data", "error", "http400", "null200"}, scope \in Scopes :
          GenerateStep(reply, scope)
    \/ \E c \in PreviewCalls, ok \in BOOLEAN, json \in {"body", "nobody"} :
          PreviewResp(c, ok, json)
    \/ \E ok \in BOOLEAN : CreateRefresh(ok)

SpecGen == InitGen /\ [][NextGen]_vars

\* createProject of a list that has been fetched, among the other mutations
\* of the list
NextCrt ==
    \/ NextMut
    \/ StartCreate
    \/ \E ok \in BOOLEAN,
          calls \in {NoCalls, [c \in PreviewCalls |-> "ok"],
                     [c \in PreviewCalls |-> IF c = "pdf" THEN "failed" ELSE "ok"]},
          json \in {"-", "body"} : CreateStep(ok, calls, json)

InitCrt == InitMut /\ srvProjects = <<Project(2, "a")>>

SpecCrt == InitCrt /\ [][NextCrt]_vars

\* the attachments of the project form, and of a caller of createProject that
\* hands over something that is no File
InitFrm ==
    /\ InitPage(MaxEvents) /\ serverScope = Null /\ incomingDraft = Null
    /\ InitDownloads /\ InitTable({<<>>}) /\ InitProjects({<<>>})
    /\ InitGenerate /\ InitForm({<<>>, <<Attachment("object", "rfp")>>})

NextFrm ==
    \/ handleFileChange
    \/ \E index \in 1..MaxAttachments, type \in FileTypes : handleFileTypeChange(index, type)
    \/ \E index \in 1..MaxAttachments : handleRemoveFile(index)
    \/ SubmitForm

SpecFrm == InitFrm /\ [][NextFrm]_vars

\* ------------------------------------------------------------------ claims

\* the page is at rest: nothing in flight, nothing to render
Quiescent ==
    /\ loads = EmptyBag
    /\ fin.pc = "idle"
    /\ regen = "idle"
    /\ DOMAIN pend = {}

\* C1: the render that commits justFinalized after a successful finalize runs the
\* text-change effect, and that run does not ask for isFinalized = false, whatever
\* the text is; it only clears justFinalized.
C1_NoRevertInFinalizeWindow ==
    [][(st'.justFinalized /\ ~st.justFinalized) =>
          /\ "isFinalized" \notin DOMAIN pend'
          /\ "justFinalized" \in DOMAIN pend'
          /\ ~pend'.justFinalized]_vars

\* C1 witness: that run has happened on a finalized page whose text differs from
\* the text recorded before
C1_Witness ==
    /\ st.justFinalized /\ st.isFinalized
    /\ detectLog.just /\ detectLog.differ
    /\ pend = Upd(NoUpd, "justFinalized", FALSE)

\* C2 as stated: once the page has loaded and is at rest outside the window after
\* a finalize, isFinalized holds exactly when a persisted scope exists.
C2_FlagIffPersisted ==
    (Quiescent /\ ~st.justFinalized /\ fetchLog.result \in {"data", "null"})
        => (st.isFinalized <=> serverScope # Null)

\* C2 amended: isFinalized, rendered or pending, implies that a persisted scope
\* exists server-side.
C2_FinalizedImpliesPersisted ==
    /\ st.isFinalized => serverScope # Null
    /\ ("isFinalized" \in DOMAIN pend /\ pend.isFinalized) => serverScope # Null

C2_Witness == Quiescent /\ st.isFinalized /\ ~st.justFinalized /\ serverScope # Null

\* C3 as stated: a finalize action in which a backend call failed ends in draft
\* state, finalizing off, a failure notification emitted, the text not replaced.
C3_FailureEndsInDraft ==
    finRes.failedAt \in {"finalizeScope", "refetch"} =>
        /\ ~finRes.finAfter
        /\ finRes.finalizingOff
        /\ finRes.errToast
        /\ ~finRes.wroteText

\* C3 amended: when finalizeScope fails the action ends with finalizing off and a
\* failure notification and has written neither isFinalized nor jsonText; when
\* only the re-fetch fails it ends the same way except that isFinalized was set.
C3_FailureKeepsState ==
    /\ finRes.failedAt = "finalizeScope" =>
          ~finRes.wroteFinal /\ ~finRes.wroteText /\ finRes.errToast /\ finRes.finalizingOff
    /\ finRes.failedAt = "refetch" =>
          finRes.wroteFinal /\ ~finRes.wroteText /\ finRes.errToast /\ finRes.finalizingOff

C3_Witness ==
    /\ finRes.failedAt = "finalizeScope"
    /\ ~finRes.finBefore /\ ~finRes.finAfter
    /\ fin.pc = "idle"

\* C4: a render in which the text of a finalized page changes, outside the window
\* after a finalize, makes the text-change effect ask for isFinalized = false.
C4_EditRevertsToDraft ==
    [][(st.isFinalized /\ st'.isFinalized /\ ~st'.justFinalized
          /\ st'.jsonText # st.jsonText) =>
          ("isFinalized" \in DOMAIN pend' /\ ~pend'.isFinalized)]_vars

\* C5: a finalize action is running only for a draft that parsed; its first
\* backend call is the finalize call; and the re-fetch is in flight only when
\* the finalize call has persisted that draft.
C5_FinalizeOnlyParsedDraft ==
    /\ fin.pc # "idle" => (fin.draft \in Scopes /\ fin.log[1] = "finalize")
    /\ fin.pc = "refetch" =>
          (serverScope = fin.draft /\ fin.log = <<"finalize", "refresh", "refetch">>)

C5_Witness == fin.pc = "refetch" /\ serverScope = fin.draft

\* C6: after a finalize action has succeeded no draft render that was cached
\* before it is displayed again: the PDF tab never shows a pre-finalize preview.
C6_NoPreFinalizePdfShown ==
    ~(st.previewPdfUrl.pre /\ st.previewPdfUrl.kind = "preview")

\* C7: a fetch of the finalized scope answered HTTP 400 resolves to null and the
\* page ends in draft state with the incoming draft, if any, as its text.
C7_NotFinalizedIsNullAndDraft ==
    fetchLog.reply = "http400" => (fetchLog.result = "null" /\ fetchLog.draftLoaded)

\* C8: once the export context's getFinalizedScope has turned a 400 into null and
\* the preview call has returned, the context's rendered error is empty.
C8_NoErrorAfterHandled400 == ctxLog = "handled400" => st.ctxError = Null

\* C9: a download whose cancel button was pressed ends with the 'cancelled'
\* notification and without the file being saved.
C9_CancelledNeverSaved ==
    dlLog.cancelled => (~dlLog.saved /\ dlLog.toast = "cancelled")

\* C10: a step of one download type changes the downloadState entry of no other
\* type, a progress update of one type would change no other entry either, and
\* a controller stored by a start is one never created before, not aborted, and
\* held by no other type.
C10_OtherTypesUnchanged ==
    [][/\ \A k \in Types \ {dlKey'} : downloadState'[k] = downloadState[k]
       /\ \A k \in Types, p \in Percents : \A j \in Types \ {k} :
             updateProgress(downloadState, k, p)[j] = downloadState[j]
       /\ \A k \in Types :
             (/\ downloadState'[k].controller # downloadState[k].controller
              /\ downloadState'[k].controller # NoController)
             => /\ downloadState'[k].controller >= nextController
                /\ downloadState'[k].controller \notin aborted'
                /\ \A j \in Types \ {k} :
                      downloadState'[j].controller # downloadState'[k].controller]_vars

\* C10 witness: the cancelled download of one type has just ended while the
\* download of another type is still running under its own controller
C10_Witness ==
    \E k \in Types, j \in Types :
        /\ k # j
        /\ dlKey = j /\ dlLog.cancelled /\ downloadState[j] = IdleEntry
        /\ downloadState[k].loading /\ downloadState[k].controller # NoController
        /\ downloadState[k].controller \notin aborted

\* C11: a "download all" ends either with the archive saved, and then its last
\* fetch was the third one and the archive holds exactly the three entries
\* <project>.json, <project>.xlsx and <project>.pdf, or with no archive and
\* the 'all' entry of downloadState idle with progress 0.
C11_ArchiveAllOrNothing ==
    [][(dlOps["all"].pc # "idle" /\ dlOps'["all"].pc = "idle") =>
          /\ dlLog'.key = "all"
          /\ dlLog'.saved =>
                /\ dlOps["all"].pc = "pdf"
                /\ Cardinality(dlLog'.files) = 3
                /\ dlLog'.files =
                      {safeFileName(dlOps["all"].name, e) : e \in {"json", "xlsx", "pdf"}}
          /\ ~dlLog'.saved =>
                /\ dlLog'.files = {}
                /\ downloadState'["all"] = IdleEntry]_vars

\* C11 witness: an archive of three entries has been saved
C11_Witness ==
    /\ dlLog.key = "all" /\ dlLog.saved
    /\ Cardinality(dlLog.files) = 3
    /\ dlOps["all"].pc = "idle"

\* C12: no file that was saved and no entry of a saved archive holds a
\* zero-byte response or a response of the wrong content type.
C12_BadResponseNeverSaved == ~dlLog.bad

\* C13: no table handler writes the pushed Total row of the resourcing-plan
\* table back into the resourcing_plan array of the draft.
C13_TotalRowNeverWritten == ~tblLog.wroteTotal

\* C14: an edit of cell (i, j) of the resourcing-plan table leaves the array
\* with the same number of rows, gives field j of row i the typed value, and
\* leaves every other field of every row and every other section as it was.
C14_EditChangesOneCell ==
    [][(tblBudget' < tblBudget /\ tblLog'.op = "edit"
          /\ tblLog'.section = "resourcing_plan") =>
          LET old == tblDraft.resourcing_plan
              new == tblDraft'.resourcing_plan
              h == excelPreview.headers[tblLog'.j]
          IN  /\ Len(new) = Len(old)
              /\ Get(new[tblLog'.i], h) = tblLog'.v
              /\ \A r \in DOMAIN old : \A k \in DOMAIN excelPreview.headers :
                    (r # tblLog'.i \/ k # tblLog'.j) =>
                        Get(new[r], excelPreview.headers[k]) = Get(old[r], excelPreview.headers[k])
              /\ tblDraft'.overview = tblDraft.overview
              /\ tblDraft'.activities = tblDraft.activities]_vars

\* the number a Rate/month or month value stands for
AmountOf(v) == IF v.t \in {"num", "numstr", "cur"} THEN v.n ELSE 0

\* C15: the Total row shown for a resourcing plan holds, in its last two cells,
\* the sum of all month-effort values of all rows and, as US currency, the sum
\* over the rows of month-effort sum times Rate/month.
C15_TotalRowIsSum ==
    (excelSection = "resourcing_plan" /\ excelPreview.total) =>
        LET arr == tblDraft.resourcing_plan
            headers == excelPreview.headers
            months == {j \in DOMAIN headers : Len(headers[j]) = 2}
            effort(r) == SumOver([j \in months |-> AmountOf(Get(r, headers[j]))], months)
            total == excelPreview.rows[Len(excelPreview.rows)]
        IN  /\ total[Len(headers) - 1] =
                  Num(SumOver([i \in DOMAIN arr |-> effort(arr[i])], DOMAIN arr))
            /\ total[Len(headers)] =
                  Cur(SumOver([i \in DOMAIN arr |->
                                  effort(arr[i]) * AmountOf(Get(arr[i], RateMonth))],
                              DOMAIN arr))

\* C16: writing the rows that a section was rendered as back through
\* updateParsedDraft, unchanged, gives the draft they were rendered from.
C16_WriteBackRoundTrip ==
    (excelPreview = Preview(tblDraft, excelSection) /\ excelPreview.headers # <<>>) =>
        updateParsedDraft(tblDraft, excelSection, excelPreview.headers, excelPreview.rows)
            = tblDraft

\* C17: a change of the text that leaves the parsed draft the same keeps the
\* PDF blob that is cached for that draft and starts no PDF request.
C17_WhitespaceEditKeepsCache ==
    [][(/\ st'.jsonText # st.jsonText
        /\ ParsedDraft(st.jsonText) # Null
        /\ ParsedDraft(st'.jsonText) = ParsedDraft(st.jsonText)
        /\ PdfCacheHit(cachedPdfBlobRef, ParsedDraft(st.jsonText)))
          => (cachedPdfBlobRef' = cachedPdfBlobRef /\ pdfReqs' = pdfReqs)]_vars

\* C18: a PDF fetch started on a finalized page is the fetch of the finalized
\* PDF, one started on a draft page asks for a render of that draft; the cache
\* holds only a non-empty application/pdf blob; and a missing, zero-byte or
\* wrong-type answer ends with the error notification, nothing stored and no
\* display URL created.
C18_FetchMatchesStateAndIsValidated ==
    /\ \A c \in BagToSet(pdfReqs) :
          c.pc = "pdf" => (IF c.isFin THEN c.data = Null ELSE c.data = c.key)
    /\ cachedPdfBlobRef # NoBlob =>
          (cachedPdfBlobRef.size > 0 /\ cachedPdfBlobRef.type = "application/pdf")
    /\ pdfLog.outcome \in {"missing", "empty", "html"} =>
          (pdfLog.toast = "invalid" /\ ~pdfLog.stored /\ ~pdfLog.shown)

\* C19: at most one display URL is live at any time, and none once the page
\* has been torn down.
C19_AtMostOneLiveUrl ==
    /\ Cardinality(urls.live) <= 1
    /\ ~urls.mounted => urls.live = {}

\* C20: when the backend call of updateProject, deleteProject or
\* deleteAllProjects fails, the failure is re-raised and the update the
\* operation enqueues leaves the project list equal to the list the operation
\* started from.
C20_FailureRollsBack ==
    (prjLog.failed /\ prjLog.kind \in {"update", "delete", "deleteAll"}) =>
        (prjLog.raised /\ prjLog.restored)

\* C20 witness: a mutation of a list that was not empty failed while the list
\* showed something else than what the mutation started from
C20_Witness ==
    /\ prjLog.failed /\ prjLog.kind \in {"update", "delete", "deleteAll"}
    /\ prjLog.undone
    /\ prjLog.restored

\* C27: once every mutation of the project list has been answered and the list
\* rendered, the list shows no project that the backend has deleted.
C27_NoDeletedProjectShown ==
    (prjPend = <<>> /\ prjOps = {}) =>
        \A i \in DOMAIN projects :
            \E j \in DOMAIN srvProjects : srvProjects[j].id = projects[i].id

\* C21: an operation that generates previews sets lastPreviewScope (and, in
\* createProject, the project list) only when all three preview calls have
\* succeeded; when one of them fails the operation rejects and sets neither.
C21_DownstreamAfterAllPreviews ==
    /\ (genLog.setPreview \/ (genLog.kind = "create" /\ genLog.setList)) =>
          \A c \in PreviewCalls : genLog.calls[c] = "ok"
    /\ (\E c \in PreviewCalls : genLog.calls[c] = "failed") =>
          (genLog.rejected /\ ~genLog.setPreview
             /\ (genLog.kind = "create" => ~genLog.setList))

\* C21 witness: an operation ended by the failure of a preview call that was
\* answered after another one had succeeded
C21_Witness ==
    /\ genLog.ended
    /\ \E c, d \in PreviewCalls : genLog.calls[c] = "failed" /\ genLog.calls[d] = "ok"

\* C22: regenerateScope asks for previews of the finalized scope when
\* exportToJson succeeds, of the supplied draft (or of the empty object) when
\* it fails with HTTP 400, and on any other failure it rejects, issues no
\* preview call and leaves lastPreviewScope alone.
C22_RegenerateScopeChoice ==
    genLog.kind = "regenerate" =>
        /\ genLog.fetch \in {"data", "null200"} =>
              (genLog.issued /\ genLog.used = serverScope)
        /\ genLog.fetch = "http400" =>
              (genLog.issued
                 /\ genLog.used = IF genLog.draft = Null THEN "{}" ELSE genLog.draft)
        /\ genLog.fetch = "error" =>
              (genLog.rejected /\ ~genLog.issued /\ ~genLog.setPreview)

\* C22 witness: a regeneration without a draft whose fetch of the finalized
\* scope was answered with HTTP 400 and whose previews of {} all succeeded
C22_Witness ==
    /\ genLog.kind = "regenerate" /\ genLog.draft = Null
    /\ genLog.fetch = "http400" /\ genLog.used = "{}"
    /\ genLog.ended /\ genLog.setPreview

\* C24: the multipart body carries exactly one file_types entry for every
\* files entry, in the same order: the i-th file_types value is the declared
\* type of the attachment the i-th files value is the content of.
C24_FileTypesPairedWithFiles ==
    formData.built =>
        LET sent == SelectSeq(formData.of, LAMBDA item : item.content \in {"File", "Blob"})
            types == GetAll(formData.entries, "file_types")
        IN  /\ Len(GetAll(formData.entries, "files")) = Len(sent)
            /\ Len(types) = Len(sent)
            /\ \A i \in DOMAIN sent : types[i] = sent[i].type

\* C23: createProject puts its temporary entry at the head of the list when it
\* starts; once it has settled the list holds no entry with the temporary id;
\* when it failed the list is the list from before the operation, and when it
\* succeeded the fetched project is at the head of the list and in it once.
C23_OptimisticCreateSettles ==
    genLog.kind = "createOptimistic" =>
        /\ genLog.tempAtHead
        /\ genLog.ended =>
              /\ \A i \in DOMAIN CurrentProjects : CurrentProjects[i].id # TempId
              /\ genLog.rejected => genLog.after = genLog.before
              /\ ~genLog.rejected =>
                    /\ genLog.after # <<>> /\ Head(genLog.after).id = NewId
                    /\ Cardinality({i \in DOMAIN genLog.after :
                                       genLog.after[i].id = NewId}) = 1

\* C25: once a finalize has ended successfully the page is finalized, in the
\* state on screen or in the one the next render commits, for a user who
\* neither edits nor regenerates.
C25_StaysFinalized ==
    (finRes.failedAt = "none" /\ fin.pc = "idle") => Apply(st, pend).isFinalized

\* C26: once every enqueued update is rendered, a blob that is cached, and
\* the blob of the preview URL the PDF tab shows, were fetched for the parsed
\* draft of the current text (lastPdfKeyRef is the key of parsedDraft).
C26_PreviewIsOfCurrentDraft ==
    DOMAIN pend = {} =>
        /\ cachedPdfBlobRef # NoBlob =>
              cachedPdfBlobRef.key = ParsedDraft(st.jsonText)
        /\ (st.activeTab = "pdf" /\ st.previewPdfUrl # NoBlob) =>
              st.previewPdfUrl.key = ParsedDraft(st.jsonText)

\* C28: with every enqueued update applied, the loading flag of the export
\* context is true exactly when a call wrapped by handleExport is in flight.
C28_LoadingIffCallInFlight ==
    Apply(st, pend).ctxLoading <=> (pdfReqs # EmptyBag)

\* C29: the scope a draft page sends to the PDF preview endpoint is the parsed
\* draft the preview was requested for, and a cached preview is the render of
\* the draft it is cached for.
C29_DraftPreviewRendersDraft ==
    /\ \A c \in BagToSet(pdfReqs) : (c.pc = "pdf" /\ ~c.isFin) => c.data = c.key
    /\ (cachedPdfBlobRef # NoBlob /\ cachedPdfBlobRef.kind = "preview") =>
          cachedPdfBlobRef.doc = cachedPdfBlobRef.key

\* C30: when every backend call settles, a finalize that was started ends
\* with finalizing false, and a download that was started ends with its type
\* not loading and without a controller.
C30_FinalizeAndDownloadsEnd ==
    /\ st.finalizing ~> ~st.finalizing
    /\ \A key \in Types :
          downloadState[key].loading ~>
              (~downloadState[key].loading /\ downloadState[key].controller = NoController)

C30_Witness ==
    /\ finRes.failedAt # "-"
    /\ fin.pc = "idle" /\ ~st.finalizing /\ DOMAIN pend = {}
    /\ dlLog.cancelled
    /\ \A key \in Types : ~downloadState[key].loading

====
